---- MODULE Spec2Model ----
(***************************************************************************)
(* Model of the interactive data export page                               *)
(* (streamlit/pages/07_interactive_data_export.py): the filter-to-SQL      *)
(* translator load_data_with_duckdb and its result cache, the club/league  *)
(* resolution, the chunked loader, and the Prepare / Download section with *)
(* its session state.                                                      *)
(*                                                                         *)
(* Conventions.  A SQL NULL / Python None cell is the empty set, a present *)
(* value v is {v}.  A date is the integer yyyymmdd.  A dataframe is a      *)
(* sequence of blocks [row, n]: n consecutive copies of the row.  A Python *)
(* dict is a function whose DOMAIN is the set of keys present.             *)
(***************************************************************************)
EXTENDS Integers, Sequences, FiniteSets, TLC

VARIABLES
    mult,               \* copies of every distinct row in each source CSV
    missing_files,      \* assets whose prep CSV does not exist
    load_cache,         \* st.cache_data store of load_data_with_duckdb
    clubs_cache,        \* st.cache_data store of get_club_names_for_leagues
    dates_cache,        \* st.cache_data store of get_date_range_for_asset
    session_state,      \* st.session_state download fields
    open_conns,         \* engine connections opened and never closed
    last_call,          \* the most recent data-access call and its outcome
    pc,                 \* position of the page script in the current run
    run,                \* the values the current run of the script computed
    ui,                 \* the widget values of the browser session
    fn_filters,         \* the filter dictionary of the direct calls
    boot                \* the process: environment flags, dataset caches, dvc pull

vars == <<mult, missing_files, load_cache, clubs_cache, dates_cache,
          session_state, open_conns, last_call, pc, run, ui, fn_filters, boot>>

----------------------------------------------------------------------------
(* Python None for optional strings (error, query) *)
None == "None"

(* SQL NULL cell *)
NULL == {}

----------------------------------------------------------------------------
(* Dates *)

\* date.strftime('%Y-%m-%d'): the three zero-padded fields of the text
strftime(d) == <<d \div 10000, (d \div 100) % 100, d % 100>>

\* the engine's implicit cast of a 'YYYY-MM-DD' literal to DATE
CastDate(s) == (s[1] * 10000) + (s[2] * 100) + s[3]

\* date.year
YearOf(d) == d \div 10000

\* datetime(1990, 1, 1).date()
global_min_val_for_input == 19900101

\* datetime.now().date() of the modelled session
global_max_val_for_input == 20261104

\* the dates that occur in the date column of the source files
RowDates == {19891231, 19900101, 20200101, 20201231, 20210101}

----------------------------------------------------------------------------
(* Assets and source files *)

Assets == {"cur_games", "cur_transfers", "cur_appearances", "cur_players",
           "cur_competitions", "cur_club_games"}

date_filterable_assets ==
    [a \in {"cur_games", "cur_appearances", "cur_player_valuations", "cur_transfers"} |->
        IF a = "cur_transfers" THEN "transfer_date" ELSE "date"]

team_filterable_assets ==
    [a \in {"cur_games", "cur_players", "cur_appearances", "cur_club_games", "cur_transfers"} |->
        CASE a = "cur_games"       -> [cols |-> <<"home_club_id", "away_club_id">>, type |-> "any"]
          [] a = "cur_players"     -> [cols |-> <<"current_club_id">>, type |-> "single"]
          [] a = "cur_appearances" -> [cols |-> <<"player_club_id">>, type |-> "single"]
          [] a = "cur_club_games"  -> [cols |-> <<"club_id">>, type |-> "single"]
          [] a = "cur_transfers"   -> [cols |-> <<"from_club_id", "to_club_id">>, type |-> "any"]]

\* club ids that occur in the club columns of the source files
ClubIds == {1, 2}

CellDates == {NULL} \cup {{d} : d \in RowDates}
CellClubs == {NULL} \cup {{c} : c \in ClubIds}

\* the distinct rows of each prepared CSV: every combination of cell values
SourceRows(a) ==
    CASE a = "cur_games" ->
           {[date |-> d, home_club_id |-> h, away_club_id |-> w] :
               d \in CellDates, h \in CellClubs, w \in CellClubs}
      [] a = "cur_transfers" ->
           {[transfer_date |-> d, from_club_id |-> h, to_club_id |-> w] :
               d \in CellDates, h \in CellClubs, w \in CellClubs}
      [] a = "cur_appearances" ->
           {[date |-> d, player_club_id |-> h] : d \in CellDates, h \in CellClubs}
      [] a = "cur_players" ->
           {[player_id |-> {p}, current_club_id |-> h] : p \in {1, 2}, h \in CellClubs}
      [] a = "cur_club_games" ->
           {[game_id |-> {g}, club_id |-> h] : g \in {1}, h \in CellClubs}
      [] OTHER ->
           {[competition_id |-> {c}] : c \in {"GB1", "ES1"}}

RECURSIVE SetToSeq(_)
SetToSeq(S) ==
    IF S = {} THEN <<>>
    ELSE LET x == CHOOSE y \in S : TRUE IN <<x>> \o SetToSeq(S \ {x})

GamesFile == SetToSeq(SourceRows("cur_games"))
TransfersFile == SetToSeq(SourceRows("cur_transfers"))
AppearancesFile == SetToSeq(SourceRows("cur_appearances"))
PlayersFile == SetToSeq(SourceRows("cur_players"))
CompetitionsFile == SetToSeq(SourceRows("cur_competitions"))
ClubGamesFile == SetToSeq(SourceRows("cur_club_games"))

\* the rows of the file in file order
FileRows(a) ==
    CASE a = "cur_games" -> GamesFile
      [] a = "cur_transfers" -> TransfersFile
      [] a = "cur_appearances" -> AppearancesFile
      [] a = "cur_players" -> PlayersFile
      [] a = "cur_club_games" -> ClubGamesFile
      [] OTHER -> CompetitionsFile

\* read_csv_auto(file): every distinct row, m copies each
read_csv_auto(a, m) == [i \in 1..Len(FileRows(a)) |-> [row |-> FileRows(a)[i], n |-> m]]

\* pd.DataFrame()
EmptyFrame == <<>>

RECURSIVE NumRows(_)
\* len(df)
NumRows(df) == IF df = <<>> THEN 0 ELSE Head(df).n + NumRows(Tail(df))

\* the distinct rows of a dataframe
RowSet(df) == {df[i].row : i \in {j \in 1..Len(df) : df[j].n > 0}}

RECURSIVE FirstRows(_, _)
\* the first k rows of a dataframe (SQL LIMIT k, DataFrame.head(k))
FirstRows(df, k) ==
    IF df = <<>> \/ k <= 0 THEN <<>>
    ELSE IF Head(df).n <= k
         THEN <<Head(df)>> \o FirstRows(Tail(df), k - Head(df).n)
         ELSE <<[row |-> Head(df).row, n |-> k]>>

----------------------------------------------------------------------------
(* The filter dictionary *)

\* filters.get(k) is truthy, for each of the keys the code reads
HasDateCol(f) == "date_filter_col" \in DOMAIN f /\ f.date_filter_col # ""
HasDateRange(f) ==
    /\ "date_range" \in DOMAIN f
    /\ f.date_range.kind # "none"
    /\ (f.date_range.kind \in {"tuple", "list"} => Len(f.date_range.elems) > 0)
HasClubConfig(f) == "club_filter_config" \in DOMAIN f
HasSelectedClubs(f) == "selected_clubs" \in DOMAIN f /\ Len(f.selected_clubs) > 0
HasClubNameMap(f) == "club_name_map" \in DOMAIN f /\ DOMAIN f.club_name_map # {}

\* a (start, end) tuple of two datetime.date objects
DateTuple(s, e) ==
    [kind |-> "tuple", elems |-> <<[isdate |-> TRUE, val |-> s], [isdate |-> TRUE, val |-> e]>>]

----------------------------------------------------------------------------
(* The SQL text and the engine that runs it *)

\* the empty query string ""
NoQuery == [select |-> "", where |-> <<>>, limit |-> {}]

\* the columns read_csv_auto finds in the file of asset a
Columns(a) == DOMAIN FileRows(a)[1]

\* the columns a condition of the WHERE clause names
ConditionCols(c) ==
    IF c.op = "date_between" THEN {c.col}
    ELSE {c.tests[i].col : i \in 1..Len(c.tests)}

\* a row satisfies one condition; a comparison with NULL is not true
RowSatisfies(row, c) ==
    IF c.op = "date_between"
    THEN \E d \in row[c.col] : CastDate(c.lo) <= d /\ d <= CastDate(c.hi)
    ELSE \E i \in 1..Len(c.tests) :
            \E v \in row[c.tests[i].col] :
                \E j \in 1..Len(c.tests[i].ids) : v = c.tests[i].ids[j]

\* SELECT * FROM read_csv_auto(file) WHERE c1 AND c2 ...
SelectWhere(a, where, m) ==
    LET Keep(b) == \A i \in 1..Len(where) : RowSatisfies(b.row, where[i])
    IN SelectSeq(read_csv_auto(a, m), Keep)

\* the engine binds every column of the statement to the file or fails
Binds(q) == \A i \in 1..Len(q.where) : ConditionCols(q.where[i]) \subseteq Columns(q.select)

\* con.execute(final_query).fetchdf()
ExecuteQuery(q, m) ==
    LET rows == SelectWhere(q.select, q.where, m)
    IN IF q.limit = {} THEN rows
       ELSE FirstRows(rows, CHOOSE k \in q.limit : TRUE)

\* con.execute(count_query): SELECT COUNT(*) FROM (final_query without LIMIT)
ExecuteCount(q, m) == NumRows(SelectWhere(q.select, q.where, m))

\* what the engine does during one call: at which step it raises, and what
EngineOutcomes ==
    { [at |-> "none", exc |-> "none"],
      [at |-> "connect", exc |-> "other"],
      [at |-> "count", exc |-> "MemoryError"],
      [at |-> "count", exc |-> "other"],
      [at |-> "data", exc |-> "memory"] }

NoFailure == [at |-> "none", exc |-> "none"]

----------------------------------------------------------------------------
(* load_data_with_duckdb *)

DATASET_LIMITS(asset_name) ==
    CASE asset_name = "cur_transfers" -> 25000
      [] asset_name = "cur_player_valuations" -> 25000
      [] asset_name = "cur_appearances" -> 30000
      [] OTHER -> 50000

MAX_QUERY_ROWS(asset_name) ==
    IF asset_name \in {"cur_transfers", "cur_appearances", "cur_player_valuations"}
    THEN 100000
    ELSE 200000

\* the returns before the try block: no connection, no query
EarlyReturn(msg) ==
    [ret |-> [data |-> EmptyFrame, query |-> NoQuery, error |-> msg, row_count |-> 0],
     opened |-> FALSE, closed |-> FALSE, executed |-> 0, exc |-> "none", propagated |-> FALSE]

\* the returns of the except clauses, handing back the count frame it fetched
ExceptReturnCountFrame(q, exc, connected, n) ==
    [ret |-> [data |-> IF n >= 1 THEN <<[row |-> [row_count |-> {n}], n |-> 1]>> ELSE EmptyFrame,
              query |-> q,
              error |-> CASE exc = "MemoryError" -> "Memory error"
                          [] exc = "memory" -> "Memory constraint"
                          [] OTHER -> "Query failed",
              total_rows_available |-> 0],
     opened |-> connected, closed |-> connected, executed |-> n, exc |-> exc,
     propagated |-> FALSE]

\* the except clauses without the generic handler: other exceptions escape
ExceptReturnMemoryOnly(q, exc, connected, n) ==
    [ret |-> [data |-> EmptyFrame, query |-> q,
              error |-> CASE exc = "MemoryError" -> "Memory error"
                          [] exc = "memory" -> "Query failed"
                          [] OTHER -> None,
              total_rows_available |-> 0],
     opened |-> connected, closed |-> connected, executed |-> n, exc |-> exc,
     propagated |-> exc = "other"]

\* the returns of the except clauses
ExceptReturn(q, exc, connected, n) ==
    [ret |-> [data |-> EmptyFrame, query |-> q,
              error |-> CASE exc = "MemoryError" -> "Memory error"
                          [] exc = "memory" -> "Memory constraint"
                          [] OTHER -> "Query failed",
              total_rows_available |-> 0],
     opened |-> connected, closed |-> connected, executed |-> n, exc |-> exc,
     propagated |-> FALSE]

\* the date condition appended to conditions
DateCondition(filters) ==
    <<[op |-> "date_between", col |-> filters.date_filter_col,
       lo |-> strftime(filters.date_range.elems[1].val),
       hi |-> strftime(filters.date_range.elems[2].val)]>>

\* selected_club_ids with a default id for the names that have no entry
SelectedClubIdsWithDefault(filters) ==
    LET names == filters.selected_clubs
    IN [i \in 1..Len(names) |->
           IF names[i] \in DOMAIN filters.club_name_map
           THEN filters.club_name_map[names[i]] ELSE 0]

\* selected_club_ids
SelectedClubIds(filters) ==
    LET names == filters.selected_clubs
        Known(nm) == nm \in DOMAIN filters.club_name_map
        kept == SelectSeq(names, Known)
    IN [i \in 1..Len(kept) |-> filters.club_name_map[kept[i]]]

\* club_conditions_list
ClubConditionsList(filters) ==
    LET cols == filters.club_filter_config.cols
    IN [i \in 1..Len(cols) |-> [col |-> cols[i], ids |-> SelectedClubIds(filters)]]

\* the club condition that tests the first configured column only
ClubConditionFirstColumn(filters) ==
    IF HasClubConfig(filters) /\ HasSelectedClubs(filters) /\ HasClubNameMap(filters)
       /\ Len(SelectedClubIds(filters)) > 0
       /\ Len(ClubConditionsList(filters)) > 0
       /\ filters.club_filter_config.type \in {"single", "any"}
    THEN <<[op |-> "in", tests |-> <<ClubConditionsList(filters)[1]>>]>>
    ELSE <<>>

\* the club condition that tests every configured column in either mode
ClubConditionEveryColumn(filters) ==
    IF HasClubConfig(filters) /\ HasSelectedClubs(filters) /\ HasClubNameMap(filters)
       /\ Len(SelectedClubIds(filters)) > 0
       /\ Len(ClubConditionsList(filters)) > 0
       /\ filters.club_filter_config.type \in {"single", "any"}
    THEN <<[op |-> "or", tests |-> ClubConditionsList(filters)]>>
    ELSE <<>>

\* the club condition appended to conditions, if any
ClubCondition(filters) ==
    IF HasClubConfig(filters) /\ HasSelectedClubs(filters) /\ HasClubNameMap(filters)
       /\ Len(SelectedClubIds(filters)) > 0
       /\ Len(ClubConditionsList(filters)) > 0
    THEN CASE filters.club_filter_config.type = "single" ->
                <<[op |-> "in", tests |-> <<ClubConditionsList(filters)[1]>>]>>
           [] filters.club_filter_config.type = "any" ->
                <<[op |-> "or", tests |-> ClubConditionsList(filters)]>>
           [] OTHER -> <<>>
    ELSE <<>>

\* final_query after the row count is known: LIMIT is added above the ceiling
LimitedQuery(final_query, row_count) ==
    IF row_count > MAX_QUERY_ROWS(final_query.select)
    THEN [final_query EXCEPT !.limit = {MAX_QUERY_ROWS(final_query.select)}]
    ELSE final_query

\* the try block after the count: fetch the rows of the final query, close
FetchData(limited, row_count, eng, m) ==
    IF eng.at = "data" THEN ExceptReturn(limited, eng.exc, TRUE, 1)
    ELSE [ret |-> [data |-> ExecuteQuery(limited, m), query |-> limited,
                   error |-> None, total_rows_available |-> row_count],
          opened |-> TRUE, closed |-> TRUE, executed |-> 2, exc |-> "none",
          propagated |-> FALSE]

\* the try block after the count query has returned row_count
CountThenFetch(final_query, row_count, eng, m) ==
    FetchData(LimitedQuery(final_query, row_count), row_count, eng, m)

\* the try block: connect, count, decide the LIMIT, fetch, close
TryBlock(final_query, eng, m) ==
    IF eng.at = "connect" THEN ExceptReturn(final_query, eng.exc, FALSE, 0)
    ELSE IF ~Binds(final_query) THEN ExceptReturn(final_query, "other", TRUE, 0)
    ELSE IF eng.at = "count" THEN ExceptReturn(final_query, eng.exc, TRUE, 0)
    ELSE CountThenFetch(final_query, ExecuteCount(final_query, m), eng, m)

\* the query built from the conditions, and the try block that runs it
RunQuery(asset_name, where, eng, m) ==
    TryBlock([select |-> asset_name, where |-> where, limit |-> {}], eng, m)

\* the body of load_data_with_duckdb(_asset_obj, filters), run on a cache miss
load_data_with_duckdb(asset_name, filters, eng, m, missing) ==
    IF asset_name \in missing THEN EarlyReturn("Data file not found")
    ELSE IF HasDateCol(filters) /\ HasDateRange(filters)
            /\ ~(filters.date_range.kind \in {"tuple", "list"} /\ Len(filters.date_range.elems) = 2)
         THEN EarlyReturn("Invalid date range format")
    ELSE IF HasDateCol(filters) /\ HasDateRange(filters)
            /\ ~(filters.date_range.elems[1].isdate /\ filters.date_range.elems[2].isdate)
         THEN EarlyReturn("Invalid date types")
    ELSE RunQuery(asset_name,
                  (IF HasDateCol(filters) /\ HasDateRange(filters)
                   THEN DateCondition(filters) ELSE <<>>) \o ClubCondition(filters),
                  eng, m)

----------------------------------------------------------------------------
(* st.cache_data: a TTL + LRU store per decorated function.  Parameters    *)
(* whose name starts with an underscore are not part of the key.           *)

\* @st.cache_data(ttl=1800, max_entries=5) on load_data_with_duckdb
LoadCacheMaxEntries == 5

\* the key of load_data_with_duckdb(_asset_obj, filters)
LoadCacheKey(asset_name, filters) == <<filters>>

\* the elements of a list
Elems(q) == {q[i] : i \in 1..Len(q)}

\* positions of the entries stored under a key
CacheHits(cache, key) == {i \in 1..Len(cache) : cache[i].key = key}

\* a read moves the entry to the most-recently-used end
CacheTouch(cache, i) ==
    SubSeq(cache, 1, i - 1) \o SubSeq(cache, i + 1, Len(cache)) \o <<cache[i]>>

\* a write evicts the least recently used entry when the store is full
CachePut(cache, entry, max_entries) ==
    Append(IF Len(cache) >= max_entries THEN Tail(cache) ELSE cache, entry)

\* a call answered from the store: the body does not run
CacheHit(cache, i) ==
    [out |-> [ret |-> cache[i].value, opened |-> FALSE, closed |-> FALSE,
              executed |-> 0, exc |-> "none", propagated |-> FALSE,
              from_cache |-> TRUE, computed_for |-> cache[i].asset],
     cache |-> CacheTouch(cache, i)]

\* a call that ran the body with outcome r: its return value is stored
CacheMiss(cache, key, asset_name, r) ==
    [out |-> [ret |-> r.ret, opened |-> r.opened, closed |-> r.closed,
              executed |-> r.executed, exc |-> r.exc, propagated |-> r.propagated,
              from_cache |-> FALSE, computed_for |-> asset_name],
     cache |-> CachePut(cache, [key |-> key, value |-> r.ret, asset |-> asset_name],
                        LoadCacheMaxEntries)]

\* one call of the decorated load_data_with_duckdb: [out, cache]
CachedLoad(cache, asset_name, filters, eng, m, missing) ==
    LET key == LoadCacheKey(asset_name, filters)
        hits == CacheHits(cache, key)
    IN IF hits # {}
       THEN CacheHit(cache, CHOOSE j \in hits : TRUE)
       ELSE CacheMiss(cache, key, asset_name,
                      load_data_with_duckdb(asset_name, filters, eng, m, missing))

----------------------------------------------------------------------------
(* process_data_in_chunks *)

Max2(a, b) == IF a >= b THEN a ELSE b
Min2(a, b) == IF a <= b THEN a ELSE b

\* date(y, 1, 1) and date(y, 12, 31)
FirstDayOf(y) == (y * 10000) + 101
LastDayOf(y) == (y * 10000) + 1231

\* the chunk range of whole calendar years, not cut to the requested range
ChunkRangeWholeYears(start_date, end_date, chunk_start_year, chunk_years) ==
    <<FirstDayOf(chunk_start_year),
      LastDayOf(Min2(chunk_start_year + chunk_years - 1, YearOf(end_date)))>>

\* chunk_filters["date_range"] of the chunk that starts at chunk_start_year
ChunkRange(start_date, end_date, chunk_start_year, chunk_years) ==
    LET chunk_end_year == Min2(chunk_start_year + chunk_years - 1, YearOf(end_date))
    IN <<Max2(FirstDayOf(chunk_start_year), start_date),
         Min2(LastDayOf(chunk_end_year), end_date)>>

\* the engine outcome of the chunk_count-th chunk's call
ChunkEngine(eng, fail_at, chunk_count) ==
    IF chunk_count = fail_at /\ eng.at # "concat" THEN eng ELSE NoFailure

\* the locals after the call of one chunk has returned c
ChunkSeen(st, rng, c) ==
    [st EXCEPT !.cache = c.cache,
               !.chunk_count = @ + 1,
               !.ranges = Append(@, rng),
               !.any_from_cache = @ \/ c.out.from_cache,
               !.leaked = @ \/ (c.out.opened /\ ~c.out.closed)]

\* the locals after a chunk without error has been collected
ChunkCollected(seen, ret, chunk_years) ==
    [seen EXCEPT !.all_chunks = @ \o ret.data,
                 !.total_rows = @ + NumRows(ret.data),
                 !.progress = Append(@, <<seen.chunk_count, seen.total_chunks>>),
                 !.chunk_start_year = @ + chunk_years]

\* what follows the loop: the concatenation of the collected chunks
ChunkConcat(st, eng) ==
    IF st.all_chunks # <<>> /\ eng.at = "concat"
    THEN [ret |-> [data |-> EmptyFrame, query |-> "Chunked processing (failed)",
                   error |-> "Chunked processing failed", total_rows_available |-> 0],
          st |-> st]
    ELSE IF st.all_chunks # <<>>
    THEN [ret |-> [data |-> st.all_chunks, query |-> "Chunked processing",
                   error |-> None, total_rows_available |-> st.total_rows],
          st |-> st]
    ELSE [ret |-> [data |-> EmptyFrame, query |-> "Chunked processing (no data)",
                   error |-> None, total_rows_available |-> 0],
          st |-> st]

RECURSIVE ChunkLoop(_, _, _, _, _, _, _, _, _, _)
\* the rest of one iteration once the chunk's call has returned c
ChunkStep(st, rng, c, asset_name, filters, chunk_years, start_date, end_date, eng, fail_at, m, missing) ==
    IF c.out.ret.error # None
    THEN [ret |-> c.out.ret, st |-> ChunkSeen(st, rng, c)]
    ELSE ChunkLoop(ChunkCollected(ChunkSeen(st, rng, c), c.out.ret, chunk_years),
                   asset_name, filters, chunk_years, start_date, end_date,
                   eng, fail_at, m, missing)

\* the while loop and what follows it; st carries the locals of the loop
ChunkLoop(st, asset_name, filters, chunk_years, start_date, end_date, eng, fail_at, m, missing) ==
    IF st.chunk_start_year <= YearOf(end_date)
    THEN ChunkStep(st, ChunkRange(start_date, end_date, st.chunk_start_year, chunk_years),
                   CachedLoad(st.cache, asset_name,
                              [filters EXCEPT !.date_range =
                                  DateTuple(ChunkRange(start_date, end_date,
                                                       st.chunk_start_year, chunk_years)[1],
                                            ChunkRange(start_date, end_date,
                                                       st.chunk_start_year, chunk_years)[2])],
                              ChunkEngine(eng, fail_at, st.chunk_count + 1), m, missing),
                   asset_name, filters, chunk_years, start_date, end_date, eng, fail_at,
                   m, missing)
    ELSE ChunkConcat(st, eng)

\* the result of the direct call made when the filter is not chunked
Unchunked(c) ==
    [out |-> [ret |-> c.out.ret, raised |-> FALSE, chunked |-> FALSE,
              any_from_cache |-> c.out.from_cache,
              leaked |-> c.out.opened /\ ~c.out.closed],
     cache |-> c.cache]

\* the result of the chunk loop r
Chunked(r) ==
    [out |-> [ret |-> r.ret, raised |-> FALSE, chunked |-> TRUE,
              leaked |-> r.st.leaked, any_from_cache |-> r.st.any_from_cache,
              ranges |-> r.st.ranges, progress |-> r.st.progress,
              chunk_count |-> r.st.chunk_count],
     cache |-> r.st.cache]

\* the locals with total_chunks one short
ChunkStartOneShort(cache, start_date, end_date, chunk_years) ==
    [cache |-> cache, all_chunks |-> <<>>, total_rows |-> 0,
     chunk_start_year |-> YearOf(start_date),
     chunk_count |-> 0,
     total_chunks |-> Max2(1, (YearOf(end_date) - YearOf(start_date)) \div chunk_years),
     ranges |-> <<>>, progress |-> <<>>, any_from_cache |-> FALSE, leaked |-> FALSE]

\* the locals when the loop is entered
ChunkStart(cache, start_date, end_date, chunk_years) ==
    [cache |-> cache, all_chunks |-> <<>>, total_rows |-> 0,
     chunk_start_year |-> YearOf(start_date),
     chunk_count |-> 0,
     total_chunks |-> ((YearOf(end_date) - YearOf(start_date)) \div chunk_years) + 1,
     ranges |-> <<>>, progress |-> <<>>, any_from_cache |-> FALSE, leaked |-> FALSE]

\* the filter carries a date column and a non-empty range of two dates
ChunkableRange(filters) ==
    /\ HasDateCol(filters)
    /\ HasDateRange(filters)
    /\ filters.date_range.kind \in {"tuple", "list"}
    /\ Len(filters.date_range.elems) = 2
    /\ filters.date_range.elems[1].isdate
    /\ filters.date_range.elems[2].isdate

\* the range spans more than chunk_years years
SpansChunks(start_date, end_date, chunk_years) ==
    YearOf(end_date) - YearOf(start_date) > chunk_years

\* process_data_in_chunks(_asset_obj, filters, chunk_years): [out, cache]
process_data_in_chunks(cache, asset_name, filters, chunk_years, eng, fail_at, m, missing) ==
    IF HasDateCol(filters) /\ HasDateRange(filters) /\ ~ChunkableRange(filters)
    THEN \* the unpacking or the .year access raises outside the try block
         [out |-> [raised |-> TRUE, chunked |-> FALSE, leaked |-> FALSE], cache |-> cache]
    ELSE IF ChunkableRange(filters)
            /\ SpansChunks(filters.date_range.elems[1].val, filters.date_range.elems[2].val,
                           chunk_years)
    THEN Chunked(ChunkLoop(ChunkStart(cache, filters.date_range.elems[1].val,
                                      filters.date_range.elems[2].val, chunk_years),
                           asset_name, filters, chunk_years,
                           filters.date_range.elems[1].val, filters.date_range.elems[2].val,
                           eng, fail_at, m, missing))
    ELSE Unchunked(CachedLoad(cache, asset_name, filters, eng, m, missing))

----------------------------------------------------------------------------
(* get_club_names_for_leagues and get_date_range_for_asset *)

\* datetime.now().year of the modelled session
current_year == 2026

\* start_year_for_leagues
start_year_for_leagues == current_year - 20

TOP_LEAGUES == {"GB1", "ES1", "L1", "IT1", "FR1"}

\* the id -> name table built by load_club_data
club_id_to_name == [id \in {1, 2} |-> IF id = 1 THEN "Arsenal FC" ELSE "Chelsea FC"]

\* the league columns of the games file
GamesLeagueRows ==
    { [competition_id |-> "GB1", season |-> 2024, home_club_id |-> {1}, away_club_id |-> {2}],
      [competition_id |-> "GB1", season |-> 2005, home_club_id |-> {2}, away_club_id |-> {3}],
      [competition_id |-> "ES1", season |-> 2006, home_club_id |-> {3}, away_club_id |-> NULL],
      [competition_id |-> "ES1", season |-> 2026, home_club_id |-> NULL, away_club_id |-> {2}],
      [competition_id |-> "CL",  season |-> 2024, home_club_id |-> {1}, away_club_id |-> {3}] }

\* SELECT DISTINCT club_id FROM (home ids UNION ALL away ids) WHERE club_id IS NOT NULL
LeagueClubIds(codes, start_year, end_year) ==
    LET picked == {g \in GamesLeagueRows :
                      /\ g.competition_id \in codes
                      /\ g.season >= start_year /\ g.season <= end_year}
    IN UNION {g.home_club_id \cup g.away_club_id : g \in picked}

RECURSIVE SortedNames(_)
\* sorted(list(set(names))) for names drawn from the club table
SortedNames(S) ==
    IF S = {} THEN <<>>
    ELSE LET firstOf == IF "Arsenal FC" \in S THEN "Arsenal FC"
                        ELSE CHOOSE x \in S : TRUE
         IN <<firstOf>> \o SortedNames(S \ {firstOf})

\* the body of get_club_names_for_leagues, run on a cache miss
get_club_names_for_leagues(codes, id_to_name, start_year, end_year, eng, missing) ==
    IF codes = {} THEN [ret |-> <<>>, opened |-> FALSE, closed |-> FALSE, executed |-> 0]
    ELSE IF "cur_games" \in missing
         THEN [ret |-> <<>>, opened |-> FALSE, closed |-> FALSE, executed |-> 0]
    ELSE IF eng.at = "connect"
         THEN [ret |-> <<>>, opened |-> FALSE, closed |-> FALSE, executed |-> 0]
    ELSE IF eng.at # "none"
         THEN \* con.execute raises: the except clause returns without con.close()
              [ret |-> <<>>, opened |-> TRUE, closed |-> FALSE, executed |-> 0]
    ELSE LET ids == LeagueClubIds(codes, start_year, end_year)
             names == {id_to_name[id] : id \in ids \cap DOMAIN id_to_name}
         IN [ret |-> IF ids = {} \/ DOMAIN id_to_name = {} THEN <<>> ELSE SortedNames(names),
             opened |-> TRUE, closed |-> TRUE, executed |-> 1]

\* the key of get_club_names_for_leagues: all five parameters start with "_"
ClubsCacheKey(codes, id_to_name, start_year, end_year) == <<>>

\* one call of the decorated get_club_names_for_leagues: [out, cache]
CachedClubNames(cache, codes, id_to_name, start_year, end_year, eng, missing) ==
    LET key == ClubsCacheKey(codes, id_to_name, start_year, end_year)
        hits == CacheHits(cache, key)
    IN IF hits # {}
       THEN LET i == CHOOSE j \in hits : TRUE
            IN [out |-> [ret |-> cache[i].value, opened |-> FALSE, closed |-> FALSE,
                         executed |-> 0, from_cache |-> TRUE, computed_for |-> cache[i].codes],
                cache |-> CacheTouch(cache, i)]
       ELSE LET r == get_club_names_for_leagues(codes, id_to_name, start_year, end_year,
                                                eng, missing)
            IN [out |-> r @@ [from_cache |-> FALSE, computed_for |-> codes],
                cache |-> CachePut(cache, [key |-> key, value |-> r.ret, codes |-> codes], 10)]

\* MIN / MAX of CAST(col AS DATE) over the file; NULL when no row has a date
ColumnDates(asset_name, col) == UNION {r[col] : r \in SourceRows(asset_name)}
MinDate(S) == IF S = {} THEN NULL ELSE {CHOOSE d \in S : \A e \in S : d <= e}
MaxDate(S) == IF S = {} THEN NULL ELSE {CHOOSE d \in S : \A e \in S : d >= e}

\* the body of get_date_range_for_asset, run on a cache miss
get_date_range_for_asset(asset_name, date_column_name, eng, missing) ==
    IF asset_name \in missing
    THEN [ret |-> <<NULL, NULL>>, opened |-> FALSE, closed |-> FALSE, executed |-> 0]
    ELSE IF eng.at = "connect"
         THEN [ret |-> <<NULL, NULL>>, opened |-> FALSE, closed |-> FALSE, executed |-> 0]
    ELSE IF eng.at # "none" \/ date_column_name \notin Columns(asset_name)
         THEN \* con.execute raises: the except clause returns without con.close()
              [ret |-> <<NULL, NULL>>, opened |-> TRUE, closed |-> FALSE, executed |-> 0]
    ELSE [ret |-> <<MinDate(ColumnDates(asset_name, date_column_name)),
                    MaxDate(ColumnDates(asset_name, date_column_name))>>,
          opened |-> TRUE, closed |-> TRUE, executed |-> 1]

\* one call of the decorated get_date_range_for_asset(_asset_obj, date_column_name)
CachedDateRange(cache, asset_name, date_column_name, eng, missing) ==
    LET key == <<date_column_name>>
        hits == CacheHits(cache, key)
    IN IF hits # {}
       THEN LET i == CHOOSE j \in hits : TRUE
            IN [out |-> [ret |-> cache[i].value, opened |-> FALSE, closed |-> FALSE,
                         executed |-> 0, from_cache |-> TRUE],
                cache |-> CacheTouch(cache, i)]
       ELSE LET r == get_date_range_for_asset(asset_name, date_column_name, eng, missing)
            IN [out |-> r @@ [from_cache |-> FALSE],
                cache |-> CachePut(cache, [key |-> key, value |-> r.ret], 20)]

----------------------------------------------------------------------------
(* Inputs of the direct calls *)

\* rows per distinct source row: small files, files above the announced
\* limits, files above the query ceilings
RowMultiplicities == {1, 5000}

\* the clubs of cur_clubs: club_name_to_id built by load_club_data
club_name_to_id == [nm \in {"Arsenal FC", "Chelsea FC"} |-> IF nm = "Arsenal FC" THEN 1 ELSE 2]

FnDates == {19900101, 20201231}

MalformedRanges ==
    { [kind |-> "tuple", elems |-> <<>>],
      [kind |-> "tuple", elems |-> <<[isdate |-> TRUE, val |-> 19900101]>>],
      [kind |-> "list", elems |-> <<[isdate |-> TRUE, val |-> 19900101],
                                    [isdate |-> TRUE, val |-> 20200101],
                                    [isdate |-> TRUE, val |-> 20201231]>>],
      [kind |-> "date", elems |-> <<[isdate |-> TRUE, val |-> 19900101]>>],
      [kind |-> "tuple", elems |-> <<[isdate |-> FALSE, val |-> 19900101],
                                     [isdate |-> TRUE, val |-> 20201231]>>] }

FnDateParts ==
    {<<>>}
    \cup {[date_filter_col |-> "date", date_range |-> DateTuple(s, e)] :
             s \in FnDates, e \in FnDates}
    \cup {[date_filter_col |-> "transfer_date", date_range |-> DateTuple(19900101, 20201231)]}
    \cup {[date_filter_col |-> "date", date_range |-> r] : r \in MalformedRanges}

FnClubParts ==
    {<<>>}
    \cup {[club_filter_config |-> team_filterable_assets[a], selected_clubs |-> sel,
           club_name_map |-> club_name_to_id] :
             a \in {"cur_games", "cur_transfers", "cur_appearances"},
             sel \in {<<"Arsenal FC">>, <<"Chelsea FC", "Arsenal FC">>, <<"Unknown FC">>}}
    \cup {[club_filter_config |-> team_filterable_assets["cur_games"], selected_clubs |-> <<>>,
           club_name_map |-> club_name_to_id]}
    \cup {[club_filter_config |-> team_filterable_assets["cur_games"],
           selected_clubs |-> <<"Unknown FC", "Chelsea FC">>, club_name_map |-> club_name_to_id]}
    \cup {[club_filter_config |-> [cols |-> <<"home_club_id", "away_club_id">>, type |-> ty],
           selected_clubs |-> <<"Arsenal FC">>, club_name_map |-> club_name_to_id] :
             ty \in {"single", "all"}}

FnFilters == {d @@ c : d \in FnDateParts, c \in FnClubParts}

----------------------------------------------------------------------------
(* Startup: load_td, get_dataset and the process they run in *)

\* the assets a complete dataset registers
AllAssets == Assets \cup {"cur_clubs"}

\* required_assets
required_assets == {"cur_games", "cur_clubs", "cur_players"}

\* os.getenv("STREAMLIT"): not set, or one of the two deployment modes
PlatformFlags == {"unset", "cloud", "local"}

\* what subprocess.run(["dvc", "pull", ...]) does: return code 0, another
\* return code, or FileNotFoundError because dvc is not installed
DvcOutcomes == {"ok", "failed", "not_found"}

\* what Dataset(base_path) and td.load_assets() do: raise, or register assets
DatasetOutcomes ==
    { [raises |-> TRUE, assets |-> {}],
      [raises |-> FALSE, assets |-> AllAssets],
      [raises |-> FALSE, assets |-> AllAssets \ {"cur_clubs"}] }

\* a process that has not loaded anything yet
ColdBoot(platform, headless) ==
    [STREAMLIT |-> platform,
     STREAMLIT_SERVER_HEADLESS |-> headless,
     td_cache |-> <<>>,
     dataset_cache |-> <<>>,
     pull_attempted |-> FALSE,
     pull_status |-> "none"]

\* the body of load_td(): the pull condition is commented out, the pull runs
\* whatever the platform flag says; then the dataset is constructed
load_td(platform, dvc, ds) ==
    [pull_attempted |-> TRUE, pull_status |-> dvc, raised |-> ds.raises,
     td |-> [assets |-> ds.assets]]

\* what a call of load_td that ran the body leaves in the process
AfterLoadTd(b, r) ==
    [b EXCEPT !.pull_attempted = @ \/ r.pull_attempted,
              !.pull_status = r.pull_status,
              !.td_cache = IF r.raised THEN @ ELSE <<r.td>>]

\* one call of the decorated load_td: [raised, td, boot]
CachedLoadTd(b, dvc, ds) ==
    IF b.td_cache # <<>>
    THEN [raised |-> FALSE, td |-> b.td_cache[1], boot |-> b]
    ELSE [raised |-> ds.raises, td |-> [assets |-> ds.assets],
          boot |-> AfterLoadTd(b, load_td(b.STREAMLIT, dvc, ds))]

\* the return value of the body of get_dataset: None when load_td raised
DatasetOrNone(r) == IF r.raised THEN {} ELSE {r.td}

\* a cache that stores the datasets it is given and forgets a None
GetDatasetMissForgetsNone(r) ==
    [value |-> DatasetOrNone(r),
     boot |-> [r.boot EXCEPT !.dataset_cache =
                  IF r.raised THEN <<>> ELSE <<[value |-> DatasetOrNone(r)]>>]]

\* the body of get_dataset() with the outcome r of its load_td call
GetDatasetMiss(r) ==
    [value |-> DatasetOrNone(r),
     boot |-> [r.boot EXCEPT !.dataset_cache = <<[value |-> DatasetOrNone(r)]>>]]

\* one call of the decorated get_dataset: [value, boot]
get_dataset(b, dvc, ds) ==
    IF b.dataset_cache # <<>>
    THEN [value |-> b.dataset_cache[1].value, boot |-> b]
    ELSE GetDatasetMiss(CachedLoadTd(b, dvc, ds))

----------------------------------------------------------------------------
(* State *)

NoCall == [fn |-> "none"]

IdleRun == [asset_name |-> "none"]

SessionDefaults ==
    [data_prepared_for_download |-> FALSE,
     excel_bytes_for_download |-> {},
     excel_filename_for_download |-> <<>>]

InitCommon ==
    /\ mult \in RowMultiplicities
    /\ missing_files = {"cur_club_games"}
    /\ load_cache = <<>>
    /\ clubs_cache = <<>>
    /\ dates_cache = <<>>
    /\ session_state = SessionDefaults
    /\ open_conns = {}
    /\ last_call = NoCall
    /\ pc = "idle"
    /\ run = IdleRun

\* the widget values of a session that has not touched the sidebar
DefaultUi ==
    [asset_name |-> "cur_games", entered |-> <<global_min_val_for_input, 20201231>>,
     enable_clubs |-> FALSE, leagues |-> {}, sel |-> <<>>]

InitFn ==
    /\ InitCommon
    /\ boot = ColdBoot("unset", FALSE)
    /\ ui = DefaultUi
    /\ fn_filters \in FnFilters

\* a caller invokes load_data_with_duckdb(asset, fn_filters)
FnLoad(a, eng) ==
    /\ last_call.fn # "process_data_in_chunks"
    /\ \E c \in {CachedLoad(load_cache, a, fn_filters, eng, mult, missing_files)} :
       /\ load_cache' = c.cache
       /\ last_call' = [fn |-> "load_data_with_duckdb", asset |-> a, filters |-> fn_filters]
                       @@ c.out
       /\ open_conns' = IF c.out.opened /\ ~c.out.closed
                        THEN open_conns \cup {"load_data_with_duckdb"} ELSE open_conns
       /\ UNCHANGED <<mult, missing_files, clubs_cache, dates_cache, session_state,
                      pc, run, ui, fn_filters, boot>>

\* more than ttl seconds pass with no call in progress: every entry has expired
ExpireCaches ==
    /\ \/ load_cache # <<>> \/ clubs_cache # <<>> \/ dates_cache # <<>>
       \/ boot.dataset_cache # <<>>
    /\ load_cache' = <<>>
    /\ clubs_cache' = <<>>
    /\ dates_cache' = <<>>
    /\ boot' = [boot EXCEPT !.dataset_cache = <<>>]
    /\ last_call' = NoCall
    /\ UNCHANGED <<mult, missing_files, session_state, open_conns, pc, run,
                   ui, fn_filters>>

\* a caller invokes process_data_in_chunks(asset, fn_filters, chunk_years) on a
\* cold cache; the model follows a chunked call only by the expiry of the cache
FnChunksFrom(a, chunk_years, eng, fail_at) ==
    /\ \E c \in {process_data_in_chunks(load_cache, a, fn_filters, chunk_years, eng, fail_at,
                                        mult, missing_files)} :
       /\ load_cache' = c.cache
       /\ last_call' = [fn |-> "process_data_in_chunks", asset |-> a, filters |-> fn_filters,
                        chunk_years |-> chunk_years, cold |-> load_cache = <<>>] @@ c.out
       /\ open_conns' = IF c.out.leaked THEN open_conns \cup {"load_data_with_duckdb"}
                        ELSE open_conns
       /\ UNCHANGED <<mult, missing_files, clubs_cache, dates_cache, session_state,
                      pc, run, ui, fn_filters, boot>>

\* the same call made while the cache is empty
FnChunks(a, chunk_years, eng, fail_at) ==
    /\ load_cache = <<>>
    /\ FnChunksFrom(a, chunk_years, eng, fail_at)

\* a caller invokes get_club_names_for_leagues for some league codes
FnClubNames(codes, eng) ==
    LET c == CachedClubNames(clubs_cache, codes, club_id_to_name, start_year_for_leagues,
                             current_year, eng, missing_files)
    IN /\ clubs_cache' = c.cache
       /\ last_call' = [fn |-> "get_club_names_for_leagues", codes |-> codes] @@ c.out
       /\ open_conns' = IF c.out.opened /\ ~c.out.closed
                        THEN open_conns \cup {"get_club_names_for_leagues"} ELSE open_conns
       /\ UNCHANGED <<mult, missing_files, load_cache, dates_cache, session_state,
                      pc, run, ui, fn_filters, boot>>

\* a caller invokes get_date_range_for_asset(asset, its date column)
FnDateRange(a, eng) ==
    LET c == CachedDateRange(dates_cache, a, date_filterable_assets[a], eng, missing_files)
    IN /\ dates_cache' = c.cache
       /\ last_call' = [fn |-> "get_date_range_for_asset", asset |-> a] @@ c.out
       /\ open_conns' = IF c.out.opened /\ ~c.out.closed
                        THEN open_conns \cup {"get_date_range_for_asset"} ELSE open_conns
       /\ UNCHANGED <<mult, missing_files, load_cache, clubs_cache, session_state,
                      pc, run, ui, fn_filters, boot>>

ChunkOutcomes == EngineOutcomes \cup {[at |-> "concat", exc |-> "MemoryError"]}

ChunkYears == {5, 10}

\* the chunk whose query the engine may fail is one of the first MaxFailChunk
MaxFailChunk == 2

NextFn ==
    \/ \E a \in Assets, eng \in EngineOutcomes : FnLoad(a, eng)
    \/ \E a \in Assets, cy \in ChunkYears, eng \in ChunkOutcomes, fail_at \in 1..MaxFailChunk :
          FnChunks(a, cy, eng, fail_at)
    \/ ExpireCaches

InitAccess ==
    /\ InitCommon
    /\ boot = ColdBoot("unset", FALSE)
    /\ ui = DefaultUi
    /\ fn_filters = <<>>

NextAccess ==
    \/ \E codes \in {{}, {"GB1"}, {"ES1"}, {"GB1", "ES1"}}, eng \in EngineOutcomes :
          FnClubNames(codes, eng)
    \/ \E a \in DOMAIN date_filterable_assets \cap Assets, eng \in EngineOutcomes :
          FnDateRange(a, eng)
    \/ ExpireCaches

SpecAccess == InitAccess /\ [][NextAccess]_vars

SpecFn == InitFn /\ [][NextFn]_vars

\* the dates a caller of process_data_in_chunks asks for
ChunkDates == {19900101, 19900615, 19951231, 20200630, 20201231}

\* chunk_years of the calls
ChunkSpans == {1, 2, 10}

\* filters with a range of two dates, first to last
ChunkFilters ==
    {[date_filter_col |-> "date", date_range |-> DateTuple(p[1], p[2])] :
        p \in {q \in ChunkDates \X ChunkDates : q[1] <= q[2]}}

InitChunks ==
    /\ InitCommon
    /\ mult = 1
    /\ boot = ColdBoot("unset", FALSE)
    /\ ui = DefaultUi
    /\ fn_filters \in ChunkFilters

\* the call that follows a call into an empty cache before the entries expire
SecondChunks(a, chunk_years) ==
    /\ load_cache # <<>>
    /\ last_call.fn = "process_data_in_chunks"
    /\ last_call.cold
    /\ FnChunksFrom(a, chunk_years, NoFailure, 1)

NextChunks ==
    \/ \E a \in {"cur_games", "cur_appearances"}, cy \in ChunkSpans, eng \in ChunkOutcomes,
          fail_at \in 1..MaxFailChunk : FnChunks(a, cy, eng, fail_at)
    \/ \E a \in {"cur_games", "cur_appearances"}, cy \in ChunkSpans : SecondChunks(a, cy)
    \/ ExpireCaches

SpecChunks == InitChunks /\ [][NextChunks]_vars

----------------------------------------------------------------------------
(* The page script: one run per user interaction *)

\* load_club_data(td): names, name -> id and id -> name of the clubs file
available_club_names == <<"Arsenal FC", "Chelsea FC">>

\* the (start, end) pairs a user enters; the second one is reversed
InputRanges == {<<19900101, 20201231>>, <<20201231, 19900101>>, <<20200101, 20201231>>}

\* the club filter settings of a session: the checkbox, the leagues, the clubs
ClubSettings ==
    { [enable_clubs |-> FALSE, leagues |-> {}, sel |-> <<>>],
      [enable_clubs |-> TRUE, leagues |-> {}, sel |-> <<>>],
      [enable_clubs |-> TRUE, leagues |-> {}, sel |-> <<"Arsenal FC">>],
      [enable_clubs |-> TRUE, leagues |-> {"GB1"}, sel |-> <<"Chelsea FC", "Arsenal FC">>] }

\* the widget values of a session
UiSettings ==
    {[asset_name |-> a, entered |-> rng] @@ cs :
        a \in Assets, rng \in InputRanges, cs \in ClubSettings}

\* the interaction that triggers a run
Triggers == {"widget", "prepare", "clear"}

\* the download section rendered its buttons at the end of the last run
DownloadRendered(ss) ==
    ss.data_prepared_for_download /\ ss.excel_bytes_for_download \notin {{}, {0}}

\* the tuple of the two date inputs as entered
selected_date_range_ui_unswapped(start_date_input, end_date_input) ==
    DateTuple(start_date_input, end_date_input)

\* lines 410-418: the two date inputs, swapped when start > end
selected_date_range_ui(start_date_input, end_date_input) ==
    IF start_date_input > end_date_input
    THEN DateTuple(end_date_input, start_date_input)
    ELSE DateTuple(start_date_input, end_date_input)

\* the query parameters of a request: none, a health-check marker, others
Requests == {"none", "health", "other"}

HealthyDataset == [raises |-> FALSE, assets |-> AllAssets]

\* the startup checks that pass whatever get_dataset returned
PageStartupVerdictUnchecked(value) == "ok"

\* lines 98-112: stop when get_dataset returned None or a required asset is
\* not registered
PageStartupVerdict(value) ==
    IF value = {} THEN "no_dataset"
    ELSE IF \E td \in value : ~(required_assets \subseteq td.assets) THEN "missing_assets"
    ELSE "ok"

\* the run record after the startup section of the page
StartupRun(req, verdict) ==
    [asset_name |-> "none",
     script |-> "page",
     wrote_ok |-> req = "health",
     startup |-> verdict,
     stopped |-> verdict # "ok",
     errors |-> CASE verdict = "no_dataset" -> {"Failed to load dataset"}
                  [] verdict = "missing_assets" -> {"Missing required assets"}
                  [] OTHER -> {}]

\* lines 14-112 of the page: the health check, whose st.stop() is raised inside
\* a bare except (stop_sticks: the stop request outlives the swallowed
\* exception and ends the run at the next command), then get_dataset and the
\* checks of what it returned
PageStartup(req, stop_sticks, dvc, ds) ==
    /\ pc = "idle"
    /\ last_call' = NoCall
    /\ IF req = "health" /\ stop_sticks
       THEN /\ run' = StartupRun(req, "health_check")
            /\ pc' = "idle"
            /\ boot' = boot
       ELSE \E g \in {get_dataset(boot, dvc, ds)} :
               /\ boot' = g.boot
               /\ run' = StartupRun(req, PageStartupVerdict(g.value))
               /\ pc' = IF PageStartupVerdict(g.value) = "ok" THEN "widgets" ELSE "idle"
    /\ UNCHANGED <<mult, missing_files, load_cache, clubs_cache, dates_cache, session_state,
                   open_conns, ui, fn_filters>>

\* where the health check of the main entry script may raise: nowhere, while
\* it reads the query parameters, or while it tests them for a marker
MainFailures == {"none", "read", "detect"}

\* the health check of the main entry script that writes OK and goes on
main_health_check_without_stop(req, fail, headless) ==
    IF fail # "read" /\ req # "none" /\ (fail = "detect" \/ req = "health")
    THEN [wrote_ok |-> TRUE, stopped |-> FALSE, content |-> TRUE]
    ELSE [wrote_ok |-> FALSE, stopped |-> headless, content |-> TRUE]

\* streamlit_app.py lines 19-79: what the script writes and whether it stops
main_health_check(req, fail, headless) ==
    LET query_params == IF fail = "read" THEN "none" ELSE req
    IN IF query_params # "none" /\ fail = "detect"
       THEN \* except Exception: the failsafe writes OK and stops
            [wrote_ok |-> TRUE, stopped |-> TRUE, content |-> FALSE]
       ELSE IF query_params = "health"
       THEN [wrote_ok |-> TRUE, stopped |-> TRUE, content |-> FALSE]
       ELSE \* the ready page; headless mode stops after it
            [wrote_ok |-> FALSE, stopped |-> headless, content |-> TRUE]

\* one run of the main entry script
MainScript(req, fail) ==
    /\ pc = "idle"
    /\ fail = "detect" => req # "none"
    /\ run' = [asset_name |-> "none", script |-> "main", req |-> req, fail |-> fail]
              @@ main_health_check(req, fail, boot.STREAMLIT_SERVER_HEADLESS)
    /\ UNCHANGED <<mult, missing_files, load_cache, clubs_cache, dates_cache, session_state,
                   open_conns, last_call, pc, ui, fn_filters, boot>>

\* lines 269-466 and 680-689: asset selection, the filter widgets, session defaults
StartRun(trig, eng) ==
    LET a == ui.asset_name
        names == IF ui.enable_clubs THEN available_club_names ELSE <<>>
        id_map == IF ui.enable_clubs THEN club_id_to_name ELSE <<>>
        ask_leagues == /\ ui.enable_clubs /\ a \in DOMAIN team_filterable_assets
                       /\ ui.leagues # {} /\ DOMAIN id_map # {}
        c == CachedClubNames(clubs_cache, ui.leagues, id_map, start_year_for_leagues,
                             current_year, eng, missing_files)
        clubs_for_selection ==
            IF ask_leagues /\ c.out.ret # <<>> THEN c.out.ret ELSE names
        selected ==
            IF /\ ui.enable_clubs /\ a \in DOMAIN team_filterable_assets
               /\ Elems(ui.sel) \subseteq Elems(clubs_for_selection)
            THEN ui.sel ELSE <<>>
    IN /\ pc = "widgets"
       /\ trig = "clear" => DownloadRendered(session_state)
       /\ ~(ask_leagues /\ ~c.out.from_cache) => eng = NoFailure
       /\ clubs_cache' = IF ask_leagues THEN c.cache ELSE clubs_cache
       /\ open_conns' = IF ask_leagues /\ c.out.opened /\ ~c.out.closed
                        THEN open_conns \cup {"get_club_names_for_leagues"} ELSE open_conns
       /\ run' = [asset_name |-> a,
                  selected_date_range_ui |-> selected_date_range_ui(ui.entered[1], ui.entered[2]),
                  available_club_names |-> names,
                  club_name_to_id |-> IF ui.enable_clubs THEN club_name_to_id ELSE <<>>,
                  selected_club_names_ui |-> selected,
                  trigger |-> trig,
                  errors |-> {},
                  stopped |-> FALSE,
                  offered_before |-> DownloadRendered(session_state),
                  download_button |-> FALSE]
       /\ pc' = "button"
       /\ last_call' = NoCall
       /\ UNCHANGED <<mult, missing_files, load_cache, dates_cache, session_state, ui,
                      fn_filters, boot>>

\* a date column for the games only
date_col_to_filter_games_only(asset_name) ==
    IF asset_name = "cur_games" THEN "date" ELSE ""

\* date_col_to_filter
date_col_to_filter(asset_name) ==
    IF asset_name \in DOMAIN date_filterable_assets
    THEN date_filterable_assets[asset_name] ELSE ""

\* club_config_to_filter is not None
has_club_config(r) ==
    r.asset_name \in DOMAIN team_filterable_assets /\ r.available_club_names # <<>>

\* filters_for_duckdb, lines 702-721
filters_for_duckdb(r) ==
    (IF date_col_to_filter(r.asset_name) # "" /\ Len(r.selected_date_range_ui.elems) > 0
     THEN [date_filter_col |-> date_col_to_filter(r.asset_name),
           date_range |-> r.selected_date_range_ui]
     ELSE <<>>)
    @@
    (IF has_club_config(r)
     THEN [club_filter_config |-> team_filterable_assets[r.asset_name],
           selected_clubs |-> r.selected_club_names_ui,
           club_name_map |-> r.club_name_to_id]
     ELSE <<>>)

LARGE_DATASETS == {"cur_transfers", "cur_appearances", "cur_player_valuations"}

EXPORT_LIMITS(asset_name) ==
    CASE asset_name = "cur_transfers" -> 20000
      [] asset_name = "cur_player_valuations" -> 20000
      [] asset_name = "cur_appearances" -> 25000
      [] OTHER -> 40000

\* the dataframe handed to the Excel writer without the cut to the ceiling
ExportFrameUntruncated(df, asset_name) == df

\* df_filtered after lines 775-778: the head of the result when it is longer
\* than the export ceiling of the asset
ExportFrame(df, asset_name) ==
    IF NumRows(df) > EXPORT_LIMITS(asset_name)
    THEN FirstRows(df, EXPORT_LIMITS(asset_name))
    ELSE df

\* the header of each prepared CSV: its columns in file order
FileHeader(a) ==
    CASE a = "cur_games" -> <<"date", "home_club_id", "away_club_id">>
      [] a = "cur_transfers" -> <<"transfer_date", "from_club_id", "to_club_id">>
      [] a = "cur_appearances" -> <<"date", "player_club_id">>
      [] a = "cur_players" -> <<"player_id", "current_club_id">>
      [] a = "cur_club_games" -> <<"game_id", "club_id">>
      [] OTHER -> <<"competition_id">>

\* df.columns of a frame that has rows: the header of the file it was read from
FrameColumns(df) ==
    CHOOSE h \in {FileHeader(a) : a \in Assets} :
        {h[i] : i \in 1..Len(h)} = DOMAIN df[1].row

\* lines 293-334
FRIENDLY_COLUMN_NAMES ==
    [c \in {"game_id", "competition_id", "season", "round", "date", "home_club_id",
            "away_club_id", "home_club_goals", "away_club_goals", "home_club_position",
            "away_club_position", "home_club_manager_name", "away_club_manager_name",
            "stadium", "attendance", "referee", "url", "player_id", "current_club_id",
            "current_club_name", "country_of_birth", "city_of_birth",
            "country_of_citizenship", "date_of_birth", "sub_position", "foot",
            "height_in_cm", "market_value_in_eur", "highest_market_value_in_eur",
            "transfer_date", "transfer_season", "from_club_id", "to_club_id",
            "from_club_name", "to_club_name", "transfer_fee"} |->
        CASE c = "game_id" -> "Game ID"
          [] c = "competition_id" -> "Competition ID"
          [] c = "season" -> "Season"
          [] c = "round" -> "Round"
          [] c = "date" -> "Date"
          [] c = "home_club_id" -> "Home Club ID"
          [] c = "away_club_id" -> "Away Club ID"
          [] c = "home_club_goals" -> "Home Club Goals"
          [] c = "away_club_goals" -> "Away Club Goals"
          [] c = "home_club_position" -> "Home Club Position"
          [] c = "away_club_position" -> "Away Club Position"
          [] c = "home_club_manager_name" -> "Home Club Manager"
          [] c = "away_club_manager_name" -> "Away Club Manager"
          [] c = "stadium" -> "Stadium"
          [] c = "attendance" -> "Attendance"
          [] c = "referee" -> "Referee"
          [] c = "url" -> "URL"
          [] c = "player_id" -> "Player ID"
          [] c = "current_club_id" -> "Current Club ID"
          [] c = "current_club_name" -> "Current Club"
          [] c = "country_of_birth" -> "Country of Birth"
          [] c = "city_of_birth" -> "City of Birth"
          [] c = "country_of_citizenship" -> "Country of Citizenship"
          [] c = "date_of_birth" -> "Date of Birth"
          [] c = "sub_position" -> "Sub-Position"
          [] c = "foot" -> "Preferred Foot"
          [] c = "height_in_cm" -> "Height (cm)"
          [] c = "market_value_in_eur" -> "Market Value (EUR)"
          [] c = "highest_market_value_in_eur" -> "Highest Market Value (EUR)"
          [] c = "transfer_date" -> "Transfer Date"
          [] c = "transfer_season" -> "Transfer Season"
          [] c = "from_club_id" -> "From Club ID"
          [] c = "to_club_id" -> "To Club ID"
          [] c = "from_club_name" -> "From Club"
          [] c = "to_club_name" -> "To Club"
          [] OTHER -> "Transfer Fee (EUR)"]

\* the export that keeps the technical names
technical_export_df_columns(columns) == columns

\* lines 784-785: [FRIENDLY_COLUMN_NAMES.get(col, col) for col in export_df.columns]
friendly_export_df_columns(columns) ==
    [i \in 1..Len(columns) |->
        IF columns[i] \in DOMAIN FRIENDLY_COLUMN_NAMES
        THEN FRIENDLY_COLUMN_NAMES[columns[i]] ELSE columns[i]]

\* the export frame with its columns renamed
ExportColumns(df, asset_name) == friendly_export_df_columns(FrameColumns(ExportFrame(df, asset_name)))

MAX_FILE_SIZE_MB == 100

\* the size cut to whole megabytes (// in place of /) before the comparison
TooLargeWholeMegabytes(nbytes) == nbytes \div (1024 * 1024) > MAX_FILE_SIZE_MB

\* len(excel_bytes) / (1024 * 1024) > MAX_FILE_SIZE_MB
TooLarge(nbytes) == nbytes > MAX_FILE_SIZE_MB * 1024 * 1024

\* what the Excel writer does: the length of the bytes it produced, or it raises
ExcelOutcomes ==
    {[raises |-> TRUE, nbytes |-> 0]} \cup
    [raises : {FALSE}, nbytes : {5000, 104857600, 104857601}]

\* a Prepare that leaves the download fields as they were
KeepDownload(ss) == ss

\* a reset that clears the flag and leaves the bytes and the filename
ResetDownloadFlagOnly(ss) == [ss EXCEPT !.data_prepared_for_download = FALSE]

\* lines 694-696, 849-851, 859-861: the three download fields are reset together
ResetDownload(ss) ==
    [ss EXCEPT !.data_prepared_for_download = FALSE,
               !.excel_bytes_for_download = {},
               !.excel_filename_for_download = <<>>]

\* lines 692-828: the Prepare button was clicked in this run
PrepareData(eng, xl) ==
    LET filters == filters_for_duckdb(run)
        a == run.asset_name
        date_ok == /\ run.selected_date_range_ui.kind \in {"tuple", "list"}
                   /\ Len(run.selected_date_range_ui.elems) = 2
                   /\ run.selected_date_range_ui.elems[1].isdate
                   /\ run.selected_date_range_ui.elems[2].isdate
        bad_date == date_col_to_filter(a) # "" /\ ~date_ok
        gate == /\ a \in LARGE_DATASETS
                /\ ~HasDateCol(filters)
                /\ ~HasSelectedClubs(filters)
        c == CachedLoad(load_cache, a, filters, eng, mult, missing_files)
        result_info == c.out.ret
        exported == ExportFrame(result_info.data, a)
        reset == ResetDownload(session_state)
    IN /\ pc = "button"
       /\ run.trigger = "prepare"
       /\ IF bad_date \/ gate
          THEN \* st.stop() before the query
               /\ eng = NoFailure /\ xl.raises
               /\ session_state' = reset
               /\ run' = [run EXCEPT !.stopped = TRUE,
                                     !.errors = IF bad_date THEN {"Invalid date"} ELSE {}]
               /\ pc' = "idle"
               /\ UNCHANGED <<load_cache, last_call, open_conns>>
          ELSE /\ load_cache' = c.cache
               /\ last_call' = [fn |-> "load_data_with_duckdb", caller |-> "page",
                                asset |-> a, filters |-> filters] @@ c.out
               /\ open_conns' = IF c.out.opened /\ ~c.out.closed
                                THEN open_conns \cup {"load_data_with_duckdb"} ELSE open_conns
               /\ c.out.from_cache => eng = NoFailure
               /\ pc' = "download"
               /\ IF result_info.error # None
                  THEN /\ xl.raises
                       /\ session_state' = reset
                       /\ run' = [run EXCEPT !.errors = {result_info.error}]
                  ELSE IF result_info.data = EmptyFrame
                  THEN /\ xl.raises
                       /\ session_state' = reset
                       /\ run' = run
                  ELSE IF xl.raises
                  THEN /\ session_state' = reset
                       /\ run' = [run EXCEPT !.errors = {"Error creating Excel file"}]
                  ELSE IF TooLarge(xl.nbytes)
                  THEN /\ session_state' = reset
                       /\ run' = [run EXCEPT !.errors = {"Generated file is too large"}]
                            @@ [excel_nbytes |-> xl.nbytes, exported |-> exported,
                                export_columns |-> ExportColumns(result_info.data, a)]
                  ELSE /\ session_state' =
                            [reset EXCEPT !.excel_bytes_for_download = {xl.nbytes},
                                          !.excel_filename_for_download =
                                              <<"transfermarkt", a, "xlsx">>,
                                          !.data_prepared_for_download = TRUE]
                       /\ run' = run @@ [excel_nbytes |-> xl.nbytes, exported |-> exported,
                                export_columns |-> ExportColumns(result_info.data, a)]
       /\ UNCHANGED <<mult, missing_files, clubs_cache, dates_cache, ui, fn_filters, boot>>

\* the Prepare button was not clicked in this run
SkipPrepare ==
    /\ pc = "button"
    /\ run.trigger # "prepare"
    /\ pc' = "download"
    /\ UNCHANGED <<mult, missing_files, load_cache, clubs_cache, dates_cache, session_state,
                   open_conns, last_call, run, ui, fn_filters, boot>>

\* lines 830-862: the download section, evaluated at the end of every run
DownloadSection(widget_fails) ==
    LET shown == DownloadRendered(session_state)
    IN /\ pc = "download"
       /\ ~shown => ~widget_fails
       /\ pc' = "idle"
       /\ IF ~shown
          THEN /\ run' = run
               /\ session_state' = session_state
          ELSE IF widget_fails
          THEN /\ run' = [run EXCEPT !.errors = @ \cup {"Error with download"}]
               /\ session_state' = ResetDownload(session_state)
          ELSE IF run.trigger = "clear"
          THEN /\ run' = [run EXCEPT !.download_button = TRUE]
               /\ session_state' = ResetDownload(session_state)
          ELSE /\ run' = [run EXCEPT !.download_button = TRUE]
               /\ session_state' = session_state
       /\ UNCHANGED <<mult, missing_files, load_cache, clubs_cache, dates_cache,
                      open_conns, last_call, ui, fn_filters, boot>>

Init ==
    /\ InitCommon
    /\ boot = ColdBoot("unset", FALSE)
    /\ ui \in UiSettings
    /\ fn_filters = <<>>

Next ==
    \/ PageStartup("none", FALSE, "ok", HealthyDataset)
    \/ \E trig \in Triggers, eng \in {NoFailure, [at |-> "count", exc |-> "other"]} :
          StartRun(trig, eng)
    \/ \E eng \in EngineOutcomes, xl \in ExcelOutcomes : PrepareData(eng, xl)
    \/ SkipPrepare
    \/ \E widget_fails \in BOOLEAN : DownloadSection(widget_fails)
    \/ pc = "idle" /\ ExpireCaches

Spec == Init /\ [][Next]_vars

\* a session with the club filter in use
ClubsUi ==
    [asset_name |-> "cur_games", entered |-> <<global_min_val_for_input, 20201231>>,
     enable_clubs |-> TRUE, leagues |-> {"GB1"}, sel |-> <<"Arsenal FC">>]

\* any deployment, cold; small source files
InitStartup ==
    /\ InitCommon
    /\ mult = 1
    /\ ui \in {DefaultUi, ClubsUi}
    /\ fn_filters = <<>>
    /\ \E platform \in PlatformFlags, headless \in BOOLEAN :
          boot = ColdBoot(platform, headless)

NextStartup ==
    \/ \E req \in {"none", "health"}, stop_sticks \in BOOLEAN,
          dvc \in DvcOutcomes, ds \in DatasetOutcomes :
          PageStartup(req, stop_sticks, dvc, ds)
    \/ \E req \in Requests, fail \in MainFailures : MainScript(req, fail)
    \/ \E trig \in Triggers : StartRun(trig, NoFailure)
    \/ \E xl \in ExcelOutcomes : PrepareData(NoFailure, xl)
    \/ SkipPrepare
    \/ \E widget_fails \in BOOLEAN : DownloadSection(widget_fails)
    \/ pc = "idle" /\ ExpireCaches

SpecStartup == InitStartup /\ [][NextStartup]_vars

----------------------------------------------------------------------------
(* Properties *)

\* the last call was a call of load_data_with_duckdb that returned
LoadReturned == last_call.fn = "load_data_with_duckdb"

\* the filter of the last call carries a well-formed date range
WellFormedRange(f) ==
    /\ "date_range" \in DOMAIN f
    /\ f.date_range.kind \in {"tuple", "list"}
    /\ Len(f.date_range.elems) = 2
    /\ f.date_range.elems[1].isdate
    /\ f.date_range.elems[2].isdate

\* C1: the date range the page hands to load_data_with_duckdb has start <= end,
\* whatever order the two dates were entered in
C1_RangeOrdered ==
    (LoadReturned /\ last_call.caller = "page" /\ "date_range" \in DOMAIN last_call.filters)
        => /\ WellFormedRange(last_call.filters)
           /\ last_call.filters.date_range.elems[1].val
                <= last_call.filters.date_range.elems[2].val

\* a Prepare run queried with dates that were entered in reverse order
C1_Witness ==
    /\ LoadReturned /\ last_call.caller = "page"
    /\ ui.entered[1] > ui.entered[2]
    /\ "date_range" \in DOMAIN last_call.filters
    /\ last_call.filters.date_range = DateTuple(ui.entered[2], ui.entered[1])

\* C2: a call answered from the cache gets a result that was computed for the
\* same asset, so it never receives the rows of another asset
C2_CacheKeyedByAsset ==
    (LoadReturned /\ last_call.from_cache)
        => /\ last_call.computed_for = last_call.asset
           /\ last_call.ret.error = None
                => RowSet(last_call.ret.data) \subseteq SourceRows(last_call.asset)

\* the last call returned rows selected under a club filter of type "any"
\* whose selected names resolve to at least one id
AnyClubFilterApplied ==
    /\ LoadReturned
    /\ last_call.ret.error = None
    /\ HasClubConfig(last_call.filters)
    /\ HasSelectedClubs(last_call.filters)
    /\ HasClubNameMap(last_call.filters)
    /\ last_call.filters.club_filter_config.type = "any"
    /\ Elems(last_call.filters.club_filter_config.cols) \subseteq Columns(last_call.asset)
    /\ Elems(last_call.filters.selected_clubs) \cap DOMAIN last_call.filters.club_name_map # {}

\* the ids the selected club names stand for
ChosenIds(f) ==
    {f.club_name_map[nm] : nm \in Elems(f.selected_clubs) \cap DOMAIN f.club_name_map}

\* the source rows with one of the configured club columns in the chosen ids
ClubUnion(a, f) ==
    {r \in SourceRows(a) :
        \E col \in Elems(f.club_filter_config.cols) : r[col] \cap ChosenIds(f) # {}}

\* the source rows inside the inclusive date range of the filter, all rows
\* when the filter carries no date range
InDateRange(a, f) ==
    IF HasDateCol(f) /\ HasDateRange(f)
    THEN {r \in SourceRows(a) :
            \E d \in r[f.date_filter_col] :
                /\ f.date_range.elems[1].val <= d
                /\ d <= f.date_range.elems[2].val}
    ELSE SourceRows(a)

\* C3 as stated: under an "any" club filter the selected rows are exactly the
\* union over the configured columns of the source rows whose value is selected
C3_ExactlyClubUnion ==
    (AnyClubFilterApplied /\ last_call.ret.query.limit = {})
        => RowSet(last_call.ret.data) = ClubUnion(last_call.asset, last_call.filters)

\* C3 amended: under an "any" club filter the selected rows are exactly the rows
\* of that union that also satisfy the date range of the filter, when it has
\* one; a capped result is a part of them
C3_ClubUnionWithinDateRange ==
    AnyClubFilterApplied
        => LET want == ClubUnion(last_call.asset, last_call.filters)
                         \cap InDateRange(last_call.asset, last_call.filters)
           IN IF last_call.ret.query.limit = {}
              THEN RowSet(last_call.ret.data) = want
              ELSE RowSet(last_call.ret.data) \subseteq want

\* a two-column "any" filter with a date range returned a row that matches
\* only through its second column
C3_Witness ==
    /\ AnyClubFilterApplied
    /\ HasDateCol(last_call.filters)
    /\ Len(last_call.filters.club_filter_config.cols) = 2
    /\ \E r \in RowSet(last_call.ret.data) :
          /\ r[last_call.filters.club_filter_config.cols[1]] \cap ChosenIds(last_call.filters) = {}
          /\ r[last_call.filters.club_filter_config.cols[2]] \cap ChosenIds(last_call.filters) # {}

\* C4: a result never has more rows than the limit announced for its asset
C4_RowsWithinAnnouncedLimit ==
    (LoadReturned /\ last_call.ret.error = None)
        => NumRows(last_call.ret.data) <= DATASET_LIMITS(last_call.asset)

\* the last call was a call of either loader that returned a result
LoaderReturned ==
    \/ LoadReturned
    \/ last_call.fn = "process_data_in_chunks" /\ ~last_call.raised

\* C5: a result that carries an error carries an empty dataframe
C5_ErrorImpliesEmpty ==
    (LoaderReturned /\ last_call.ret.error # None) => last_call.ret.data = EmptyFrame

\* a chunked run stopped at a chunk whose query failed after the count succeeded
C5_Witness ==
    /\ last_call.fn = "process_data_in_chunks"
    /\ ~last_call.raised
    /\ last_call.chunked
    /\ last_call.ret.error = "Memory constraint"
    /\ last_call.ret.data = EmptyFrame

\* the last call queried a date-filterable asset by its date column with a
\* well-formed range and no club filter
DateOnlyQuery ==
    /\ LoadReturned
    /\ last_call.ret.error = None
    /\ last_call.asset \in DOMAIN date_filterable_assets
    /\ DOMAIN last_call.filters = {"date_filter_col", "date_range"}
    /\ last_call.filters.date_filter_col = date_filterable_assets[last_call.asset]
    /\ WellFormedRange(last_call.filters)

\* C6: a date-only query returns exactly the source rows whose date lies in the
\* inclusive range, cut to the query ceiling only when there are more of them
C6_ExactlyRowsInRange ==
    DateOnlyQuery
        => LET want == InDateRange(last_call.asset, last_call.filters)
               count == Cardinality(want) * mult
           IN /\ RowSet(last_call.ret.data) \subseteq want
              /\ NumRows(last_call.ret.data) =
                    IF count > MAX_QUERY_ROWS(last_call.asset)
                    THEN MAX_QUERY_ROWS(last_call.asset) ELSE count
              /\ count <= MAX_QUERY_ROWS(last_call.asset)
                    => RowSet(last_call.ret.data) = want

\* the Prepare run of the page produced Excel bytes
ExcelProduced == "excel_nbytes" \in DOMAIN run

\* C7: when the generated Excel bytes exceed 100 MB the export is rejected with
\* an error and the session holds no bytes, no filename and no prepared flag
C7_OversizeRejected ==
    (ExcelProduced /\ run.excel_nbytes > 100 * 1024 * 1024 /\ pc = "download")
        => /\ "Generated file is too large" \in run.errors
           /\ session_state.excel_bytes_for_download = {}
           /\ session_state.data_prepared_for_download = FALSE
           /\ session_state.excel_filename_for_download = <<>>

\* a Prepare run whose query succeeded produced a file one byte over the limit
C7_Witness ==
    /\ ExcelProduced
    /\ pc = "download"
    /\ run.excel_nbytes = (100 * 1024 * 1024) + 1
    /\ last_call.ret.error = None
    /\ NumRows(run.exported) > 0

\* the filter of the last call names a date column and has a malformed range
MalformedRange(f) ==
    /\ "date_filter_col" \in DOMAIN f /\ f.date_filter_col # ""
    /\ "date_range" \in DOMAIN f
    /\ f.date_range.kind # "none"
    /\ ~WellFormedRange(f)

\* C8: a malformed date range gives an error result with an empty dataframe,
\* and neither a connection nor a query
C8_MalformedRangeRejected ==
    (LoadReturned /\ ~last_call.from_cache /\ MalformedRange(last_call.filters))
        => /\ last_call.ret.error # None
           /\ last_call.ret.data = EmptyFrame
           /\ last_call.executed = 0
           /\ ~last_call.opened

\* C9: an exception of the engine is returned as an error result of its class,
\* memory-related or generic, and does not reach the caller
C9_EngineErrorsClassified ==
    (LoadReturned /\ last_call.exc # "none")
        => /\ ~last_call.propagated
           /\ last_call.ret.error =
                CASE last_call.exc = "MemoryError" -> "Memory error"
                  [] last_call.exc = "memory" -> "Memory constraint"
                  [] OTHER -> "Query failed"
           /\ last_call.ret.data = EmptyFrame

\* the engine raised a generic exception while counting and the call returned
C9_Witness ==
    /\ LoadReturned
    /\ last_call.exc = "other"
    /\ last_call.opened
    /\ last_call.ret.error = "Query failed"

\* C10: no connection is left open by the call that opened it
C10_ConnectionsClosed ==
    /\ open_conns = {}
    /\ (last_call.fn # "none" /\ "opened" \in DOMAIN last_call /\ last_call.opened)
          => last_call.closed

\* the filter carries a club condition that the query builder applies
ClubFilterApplies(f) ==
    /\ HasClubConfig(f) /\ HasSelectedClubs(f) /\ HasClubNameMap(f)
    /\ ChosenIds(f) # {}
    /\ Len(f.club_filter_config.cols) > 0
    /\ f.club_filter_config.type \in {"single", "any"}

\* the columns of the club config that the named membership mode tests
TestedClubCols(f) ==
    IF f.club_filter_config.type = "single"
    THEN {f.club_filter_config.cols[1]}
    ELSE Elems(f.club_filter_config.cols)

\* every column the filter names is a column of the asset
FilterFitsAsset(a, f) ==
    /\ (HasDateCol(f) /\ HasDateRange(f)) => f.date_filter_col \in Columns(a)
    /\ ClubFilterApplies(f) => TestedClubCols(f) \subseteq Columns(a)

\* the source rows of asset a that match filter f
MatchingRows(a, f) ==
    {r \in InDateRange(a, f) :
        ClubFilterApplies(f)
            => \E col \in TestedClubCols(f) : r[col] \cap ChosenIds(f) # {}}

\* the number of rows of the file of asset a that match filter f
MatchingCount(a, f) == Cardinality(MatchingRows(a, f)) * mult

\* C11: a successful call reports the count of the matching rows, carries a
\* LIMIT exactly when that count is above the query ceiling of the asset, and
\* returns min(count, ceiling) rows
C11_CountThenLimit ==
    (LoadReturned /\ last_call.ret.error = None
        /\ FilterFitsAsset(last_call.asset, last_call.filters))
        => LET count == MatchingCount(last_call.asset, last_call.filters)
               ceiling == MAX_QUERY_ROWS(last_call.asset)
           IN /\ last_call.ret.total_rows_available = count
              /\ (last_call.ret.query.limit # {}) = (count > ceiling)
              /\ last_call.ret.query.limit # {} => last_call.ret.query.limit = {ceiling}
              /\ NumRows(last_call.ret.data) = Min2(count, ceiling)
              /\ (last_call.ret.total_rows_available > NumRows(last_call.ret.data))
                    = (count > ceiling)

\* C11 on the calls that ran the body of the function
C11_CountThenLimitWhenRun ==
    (LoadReturned /\ ~last_call.from_cache) => C11_CountThenLimit

\* C12: a call for an asset whose source file is missing returns an error and
\* an empty dataframe, and neither opens a connection nor executes a query
C12_MissingFileRejected ==
    (LoadReturned /\ last_call.asset \in missing_files)
        => /\ last_call.ret.error # None
           /\ last_call.ret.data = EmptyFrame
           /\ ~last_call.opened
           /\ last_call.executed = 0

\* C12 on the calls that ran the body of the function
C12_MissingFileRejectedWhenRun ==
    (LoadReturned /\ ~last_call.from_cache /\ last_call.asset \in missing_files)
        => /\ last_call.ret.error = "Data file not found"
           /\ last_call.ret.data = EmptyFrame
           /\ ~last_call.opened
           /\ last_call.executed = 0

\* the last call ran the body of load_data_with_duckdb as far as the statement
StatementBuilt ==
    /\ LoadReturned
    /\ ~last_call.from_cache
    /\ last_call.ret.query # NoQuery

\* the positions of the date predicates and of the club predicates of a WHERE
DatePredicates(where) == {i \in 1..Len(where) : where[i].op = "date_between"}
ClubPredicates(where) == {i \in 1..Len(where) : where[i].op \in {"in", "or"}}

\* C13: the statement selects from the source of the asset; its WHERE clause is
\* the conjunction of at most one date predicate and at most one club
\* predicate; a "single" club predicate tests the first configured column
\* only, an "any" club predicate is the disjunction of one IN test per
\* configured column; without an applicable predicate there is no WHERE clause
C13_StatementShape ==
    StatementBuilt
        => LET q == last_call.ret.query
               f == last_call.filters
               dates == DatePredicates(q.where)
               clubs == ClubPredicates(q.where)
           IN /\ q.select = last_call.asset
              /\ dates \cup clubs = 1..Len(q.where)
              /\ Cardinality(dates) = IF HasDateCol(f) /\ HasDateRange(f) THEN 1 ELSE 0
              /\ Cardinality(clubs) = IF ClubFilterApplies(f) THEN 1 ELSE 0
              /\ \A i \in dates :
                    /\ q.where[i].col = f.date_filter_col
                    /\ CastDate(q.where[i].lo) = f.date_range.elems[1].val
                    /\ CastDate(q.where[i].hi) = f.date_range.elems[2].val
              /\ \A i \in clubs :
                    IF f.club_filter_config.type = "single"
                    THEN /\ q.where[i].op = "in"
                         /\ Len(q.where[i].tests) = 1
                         /\ q.where[i].tests[1].col = f.club_filter_config.cols[1]
                    ELSE /\ q.where[i].op = "or"
                         /\ Len(q.where[i].tests) = Len(f.club_filter_config.cols)
                         /\ \A k \in 1..Len(q.where[i].tests) :
                               q.where[i].tests[k].col = f.club_filter_config.cols[k]
              /\ (~(HasDateCol(f) /\ HasDateRange(f)) /\ ~ClubFilterApplies(f))
                    => q.where = <<>>

\* a statement was built with a date predicate and a "single" club predicate
\* from a config that names two columns
C13_Witness ==
    /\ StatementBuilt
    /\ Len(last_call.ret.query.where) = 2
    /\ last_call.filters.club_filter_config.type = "single"
    /\ Len(last_call.filters.club_filter_config.cols) = 2
    /\ last_call.ret.error = None

\* the selected names of a filter that have no entry in its name-to-id map
UnresolvedNames(f) == Elems(f.selected_clubs) \ DOMAIN f.club_name_map

\* C14: the ids of the club predicate are exactly the ids of the selected names
\* that have an entry in the map; there is a club predicate only if some name
\* has one, and a name without an entry does not make the call fail
C14_IdsAreResolvedNames ==
    (StatementBuilt /\ HasClubConfig(last_call.filters)
        /\ HasSelectedClubs(last_call.filters) /\ HasClubNameMap(last_call.filters))
        => LET q == last_call.ret.query
               f == last_call.filters
               clubs == ClubPredicates(q.where)
           IN /\ \A i \in clubs : \A k \in 1..Len(q.where[i].tests) :
                    Elems(q.where[i].tests[k].ids) = ChosenIds(f)
              /\ ChosenIds(f) = {} => clubs = {}
              /\ ClubFilterApplies(f) => clubs # {}
              /\ (UnresolvedNames(f) # {} /\ last_call.exc = "none")
                    => last_call.ret.error = None

\* a call with one resolved and one unresolved name returned rows
C14_Witness ==
    /\ StatementBuilt
    /\ HasSelectedClubs(last_call.filters)
    /\ UnresolvedNames(last_call.filters) # {}
    /\ ChosenIds(last_call.filters) = {2}
    /\ ClubPredicates(last_call.ret.query.where) # {}
    /\ last_call.ret.error = None
    /\ NumRows(last_call.ret.data) > 0

\* dataframe p holds the first rows of dataframe d, in the order of d
IsPrefix(p, d) ==
    /\ Len(p) <= Len(d)
    /\ \A i \in 1..Len(p) :
          /\ p[i].row = d[i].row
          /\ IF i < Len(p) THEN p[i].n = d[i].n ELSE p[i].n <= d[i].n

\* C15: the rows written to the spreadsheet are the first rows of the query
\* result, as many as the result has and never more than the export ceiling
C15_ExportWithinCeiling ==
    (ExcelProduced /\ LoadReturned)
        => /\ NumRows(run.exported) <= EXPORT_LIMITS(run.asset_name)
           /\ NumRows(run.exported)
                = Min2(NumRows(last_call.ret.data), EXPORT_LIMITS(run.asset_name))
           /\ IsPrefix(run.exported, last_call.ret.data)

\* a Prepare action stored a spreadsheet of a result longer than the ceiling
C15_Witness ==
    /\ ExcelProduced
    /\ LoadReturned
    /\ session_state.data_prepared_for_download
    /\ NumRows(last_call.ret.data) > EXPORT_LIMITS(run.asset_name)
    /\ NumRows(run.exported) = EXPORT_LIMITS(run.asset_name)

\* the last call was a call of get_club_names_for_leagues
ClubNamesReturned == last_call.fn = "get_club_names_for_leagues"

\* the call was answered without an exception of the engine
ClubNamesSucceeded ==
    last_call.from_cache \/ last_call.codes = {} \/ last_call.executed = 1

\* the names of the club table in alphabetical order
NameOrder == <<"Arsenal FC", "Chelsea FC">>

\* the position of a club name in the alphabetical order
NameRank(nm) == CHOOSE i \in 1..Len(NameOrder) : NameOrder[i] = nm

\* the display names of the clubs with a map entry that played, at home or
\* away, a game of one of the leagues in a season of the trailing 20 years
ExpectedClubNames(codes) ==
    {club_id_to_name[id] :
        id \in {i \in DOMAIN club_id_to_name :
                  \E g \in GamesLeagueRows :
                      /\ g.competition_id \in codes
                      /\ current_year - 20 <= g.season /\ g.season <= current_year
                      /\ i \in g.home_club_id \cup g.away_club_id}}

\* a list of club names is sorted and free of duplicates
SortedDistinct(names) ==
    \A i \in 1..Len(names) : \A j \in 1..Len(names) :
        i < j => NameRank(names[i]) < NameRank(names[j])

\* C16: a call returns the sorted, duplicate-free names of the clubs of the
\* leagues passed to it, and the empty list for no league
C16_NamesOfChosenLeagues ==
    (ClubNamesReturned /\ ClubNamesSucceeded)
        => /\ Elems(last_call.ret) = ExpectedClubNames(last_call.codes)
           /\ SortedDistinct(last_call.ret)
           /\ last_call.codes = {} => last_call.ret = <<>>

\* C16 on the calls that ran the body of the function
C16_NamesOfChosenLeaguesWhenRun ==
    (ClubNamesReturned /\ ~last_call.from_cache) => C16_NamesOfChosenLeagues

\* C17: a call answered from the cache gets the club list of a call that
\* passed the same league codes
C17_CacheKeyedByLeagues ==
    (ClubNamesReturned /\ last_call.from_cache)
        => /\ last_call.computed_for = last_call.codes
           /\ Elems(last_call.ret) \subseteq ExpectedClubNames(last_call.codes)

\* C18: the pull of the prepared data from remote storage is attempted only
\* when the platform flag says the app runs in the cloud.
C18_PullOnlyOnCloud ==
    boot.pull_attempted => boot.STREAMLIT = "cloud"

\* the cases in which load_td did run its body
C18_PullWheneverLoaded ==
    (boot.td_cache # <<>> \/ boot.pull_status # "none") => boot.pull_attempted

\* the last run was a run of the main entry script
IsMainRun == "script" \in DOMAIN run /\ run.script = "main"

\* the main entry script read query parameters and they were not empty
ParamsSeen == run.fail # "read" /\ run.req # "none"

\* a step that is a run of the main entry script
MainStep == run' # run /\ "script" \in DOMAIN run' /\ run'.script = "main"

\* C19 as stated: in the main entry script a marker among the query
\* parameters, or an exception anywhere in the detection, makes the script
\* write OK and stop at once.
C19_MarkerOrErrorWritesOk ==
    (IsMainRun /\ (run.req = "health" \/ run.fail # "none"))
        => (run.wrote_ok /\ run.stopped /\ ~run.content)

\* C19: in the main entry script a marker among the query parameters that were
\* read, or an exception raised while testing them, makes the script write OK
\* and stop at once; an exception raised while reading them is swallowed and
\* the request is served as one without parameters; and no run of the main
\* entry script loads the dataset, fills a cache or runs a query.
C19_MainHealthCheck ==
    /\ [](IsMainRun =>
            /\ (ParamsSeen /\ (run.req = "health" \/ run.fail = "detect"))
                  => (run.wrote_ok /\ run.stopped /\ ~run.content)
            /\ run.fail = "read"
                  => (~run.wrote_ok /\ run.content
                      /\ run.stopped = boot.STREAMLIT_SERVER_HEADLESS))
    /\ [][MainStep => UNCHANGED <<boot, load_cache, clubs_cache, dates_cache,
                                  last_call, open_conns, session_state, pc>>]_vars

C19_Witness ==
    /\ IsMainRun
    /\ run.req = "health"
    /\ run.fail = "none"
    /\ run.wrote_ok
    /\ run.stopped
    /\ boot.td_cache = <<>>

\* the last run was a run of the export page that its startup section stopped
\* because the dataset or a required asset was missing
StartupFailed ==
    /\ "startup" \in DOMAIN run
    /\ run.startup \in {"no_dataset", "missing_assets"}

\* what get_dataset holds for the runs of the next half hour
DatasetHeld == IF boot.dataset_cache = <<>> THEN {} ELSE boot.dataset_cache[1].value

\* C20: in the export page a run whose dataset could not be loaded, or lacks
\* one of cur_games, cur_clubs, cur_players, stops in the startup section:
\* no widget is drawn, and neither load_club_data nor load_data_with_duckdb
\* is called in that run.
C20_StartupFailureHalts ==
    /\ [](StartupFailed =>
            /\ run.stopped
            /\ pc = "idle"
            /\ last_call = NoCall
            /\ open_conns = {}
            /\ (DatasetHeld = {}
                \/ \E td \in DatasetHeld : ~(required_assets \subseteq td.assets)))
    /\ [](pc # "idle" =>
            /\ DatasetHeld # {}
            /\ \A td \in DatasetHeld : required_assets \subseteq td.assets)
    /\ [][(StartupFailed' /\ run' # run)
            => UNCHANGED <<load_cache, clubs_cache, dates_cache, open_conns,
                           session_state>>]_vars

C20_Witness ==
    /\ StartupFailed
    /\ run.startup = "missing_assets"
    /\ run.stopped
    /\ boot.dataset_cache # <<>>

\* C21: the exported frame has as many columns as the filtered frame, in the
\* same order; a column with an entry in FRIENDLY_COLUMN_NAMES carries its
\* label, every other column its original name.
C21_ExportColumnsRenamed ==
    (ExcelProduced /\ LoadReturned) =>
        LET src == FrameColumns(last_call.ret.data)
            out == run.export_columns
        IN /\ Len(out) = Len(src)
           /\ \A i \in 1..Len(src) :
                 out[i] = IF src[i] \in DOMAIN FRIENDLY_COLUMN_NAMES
                          THEN FRIENDLY_COLUMN_NAMES[src[i]] ELSE src[i]

\* an export with a labelled column and a column that keeps its name
C21_Witness ==
    /\ ExcelProduced
    /\ LoadReturned
    /\ run.export_columns = <<"Date", "player_club_id">>
    /\ session_state.data_prepared_for_download

\* the startup section of the export page has just answered a health check
PageAnsweredHealthCheck ==
    /\ "startup" \in DOMAIN run
    /\ run.script = "page"
    /\ run.wrote_ok

\* C22: in the export page, a request whose query parameters contain 'health'
\* or 'check' gets "OK" and the run stops there: get_dataset does not run and
\* no widget is drawn in that run.
C22_PageHealthCheckStops ==
    PageAnsweredHealthCheck =>
        /\ run.stopped
        /\ run.startup = "health_check"
        /\ pc = "idle"

\* the Prepare button was clicked in the last run and its handler has ended
PrepareEnded ==
    /\ "trigger" \in DOMAIN run
    /\ run.trigger = "prepare"
    /\ pc \in {"download", "idle"}

\* the Prepare handler stored an Excel file in the session
PrepareSucceeded == ExcelProduced /\ ~TooLarge(run.excel_nbytes)

\* C23: after a Prepare that does not end in a successful export (query error,
\* empty result, invalid date input, oversized file, Excel exception, early
\* stop) the three download fields hold their reset values, so a file prepared
\* earlier is no longer offered for download.
C23_FailedPrepareClearsDownload ==
    (PrepareEnded /\ ~PrepareSucceeded) =>
        /\ session_state.data_prepared_for_download = FALSE
        /\ session_state.excel_bytes_for_download = {}
        /\ session_state.excel_filename_for_download = <<>>
        /\ ~DownloadRendered(session_state)
        /\ ~run.download_button

\* a file was on offer when the run began, and the Prepare of the run failed
C23_Witness ==
    /\ PrepareEnded
    /\ ~PrepareSucceeded
    /\ run.offered_before
    /\ run.errors # {}
    /\ pc = "idle"
    /\ session_state = SessionDefaults

\* C24: in every reachable session state the prepared flag is True only with
\* bytes and a filename present; the three download fields are set together
\* and reset together, so they are all present or all at their reset values;
\* and the download button is rendered only from a state whose flag is True
\* and whose bytes are non-empty.
C24_DownloadFieldsTogether ==
    /\ [](/\ session_state.data_prepared_for_download
               => /\ session_state.excel_bytes_for_download # {}
                  /\ session_state.excel_filename_for_download # <<>>
          /\ ~session_state.data_prepared_for_download
               => /\ session_state.excel_bytes_for_download = {}
                  /\ session_state.excel_filename_for_download = <<>>)
    /\ [][(pc = "download" /\ "download_button" \in DOMAIN run' /\ run'.download_button)
            => /\ session_state.data_prepared_for_download
               /\ \E n \in session_state.excel_bytes_for_download : n > 0]_vars

\* the button is on the page with the prepared file behind it
C24_Witness ==
    /\ "download_button" \in DOMAIN run
    /\ run.download_button
    /\ session_state.data_prepared_for_download
    /\ session_state.excel_bytes_for_download = {5000}
    /\ session_state.excel_filename_for_download # <<>>

\* the filter supplies a club config and selected names, yet no name has an
\* entry in the map or the config type is neither "single" nor "any"
ClubFilterIgnored(f) ==
    /\ HasClubConfig(f) /\ HasSelectedClubs(f)
    /\ \/ ChosenIds(f) = {}
       \/ f.club_filter_config.type \notin {"single", "any"}

\* C25: a call whose club filter is supplied but cannot be applied (no name
\* resolves, or an unknown config type) returns the rows that match the date
\* predicate alone, all rows when there is none: the statement has no club
\* predicate, and the call neither fails nor comes back empty for that reason.
C25_IgnoredClubFilterSelectsByDate ==
    (LoadReturned /\ ClubFilterIgnored(last_call.filters)
        /\ last_call.ret.error = None
        /\ FilterFitsAsset(last_call.asset, last_call.filters))
        => LET want == InDateRange(last_call.asset, last_call.filters)
               q == last_call.ret.query
           IN /\ ClubPredicates(q.where) = {}
              /\ q.select = last_call.asset
              /\ last_call.ret.total_rows_available = Cardinality(want) * mult
              /\ RowSet(last_call.ret.data) \subseteq want
              /\ q.limit = {} => RowSet(last_call.ret.data) = want

\* C25 on the calls that ran the body of the function
C25_IgnoredClubFilterWhenRun ==
    (LoadReturned /\ ~last_call.from_cache) => C25_IgnoredClubFilterSelectsByDate

\* the Prepare button was clicked in the last run for a large dataset
PrepareOfLargeDataset ==
    /\ "trigger" \in DOMAIN run
    /\ run.trigger = "prepare"
    /\ run.asset_name \in LARGE_DATASETS

\* C26: the confirmation gate for unfiltered large datasets is never taken:
\* for every asset of LARGE_DATASETS the filters of a Prepare carry the date
\* column and a range of two dates, and no Prepare of such an asset stops
\* before its query.
C26_LargeDatasetGateUnreachable ==
    PrepareOfLargeDataset =>
        /\ LARGE_DATASETS \subseteq DOMAIN date_filterable_assets
        /\ date_col_to_filter(run.asset_name) # ""
        /\ HasDateCol(filters_for_duckdb(run))
        /\ Len(filters_for_duckdb(run).date_range.elems) = 2
        /\ ~run.stopped
        /\ pc \in {"download", "idle"} => LoadReturned \/ last_call = NoCall

\* a Prepare of a large dataset with no club selected went on to its query
C26_Witness ==
    /\ PrepareOfLargeDataset
    /\ run.selected_club_names_ui = <<>>
    /\ pc = "download"
    /\ LoadReturned
    /\ last_call.asset = "cur_transfers"
    /\ HasDateCol(last_call.filters)

\* get_dataset holds None for the runs that follow
NoneCached == boot.dataset_cache = <<[value |-> {}]>>

\* a step that is a run of the startup section of the export page
PageStartupStep ==
    /\ pc = "idle"
    /\ run' # run
    /\ "startup" \in DOMAIN run'

\* C27: a failed dataset load is cached. A run in which load_td raises leaves
\* None in the cache of get_dataset; while None is cached nothing but its
\* expiry changes what load_td has done or stored, and every run of the page
\* stops in its startup section.
C27_FailedLoadCached ==
    /\ [][(PageStartupStep /\ run'.startup = "no_dataset")
            => boot'.dataset_cache = <<[value |-> {}]>>]_vars
    /\ [][NoneCached
            => \/ boot' = boot
               \/ boot' = [boot EXCEPT !.dataset_cache = <<>>]]_vars
    /\ [][(NoneCached /\ PageStartupStep)
            => /\ run'.startup \in {"no_dataset", "health_check"}
               /\ run'.stopped
               /\ pc' = "idle"]_vars

\* load_td ran once, raised, and the run stopped with None in the cache
C27_Witness ==
    /\ NoneCached
    /\ boot.td_cache = <<>>
    /\ boot.pull_attempted
    /\ StartupFailed
    /\ run.startup = "no_dataset"
    /\ run.stopped

\* the last call was a call of process_data_in_chunks that entered the loop
ChunkLoopEntered ==
    /\ last_call.fn = "process_data_in_chunks"
    /\ ~last_call.raised
    /\ last_call.chunked

\* every iteration of the loop of the last call ran to its end
ChunkLoopCompleted ==
    /\ ChunkLoopEntered
    /\ Len(last_call.progress) = Len(last_call.ranges)

\* the number of days of month m of year y
DaysIn(y, m) ==
    IF m \in {4, 6, 9, 11} THEN 30
    ELSE IF m # 2 THEN 31
    ELSE IF y % 4 = 0 /\ (y % 100 # 0 \/ y % 400 = 0) THEN 29 ELSE 28

\* the calendar day after d
NextDay(d) ==
    LET y == d \div 10000
        m == (d \div 100) % 100
        dd == d % 100
    IN IF dd < DaysIn(y, m) THEN d + 1
       ELSE IF m < 12 THEN (y * 10000) + ((m + 1) * 100) + 1
       ELSE ((y + 1) * 10000) + 101

\* C28: for a range [start, end] that spans more than chunk_years years the
\* chunk ranges are non-empty, lie within [start, end], begin at start, follow
\* one another without gap or overlap in increasing order, and end at end
\* once the loop has run through.
C28_ChunksPartitionRange ==
    ChunkLoopEntered =>
        LET rs == last_call.ranges
            s == last_call.filters.date_range.elems[1].val
            e == last_call.filters.date_range.elems[2].val
        IN /\ YearOf(e) - YearOf(s) > last_call.chunk_years
           /\ Len(rs) >= 1
           /\ rs[1][1] = s
           /\ \A i \in 1..Len(rs) : s <= rs[i][1] /\ rs[i][1] <= rs[i][2] /\ rs[i][2] <= e
           /\ \A i \in 1..(Len(rs) - 1) : rs[i + 1][1] = NextDay(rs[i][2])
           /\ ChunkLoopCompleted => rs[Len(rs)][2] = e

\* a range from mid-1990 to mid-2020 was cut into four ten-year chunks
C28_Witness ==
    /\ ChunkLoopCompleted
    /\ last_call.chunk_years = 10
    /\ last_call.ranges = <<<<19900615, 19991231>>, <<20000101, 20091231>>,
                            <<20100101, 20191231>>, <<20200101, 20200630>>>>

\* the multiset of the rows of a dataframe: how often each row occurs
RECURSIVE Occurrences(_, _)
Occurrences(df, row) ==
    IF df = <<>> THEN 0
    ELSE (IF Head(df).row = row THEN Head(df).n ELSE 0) + Occurrences(Tail(df), row)

FrameBag(df) == [row \in RowSet(df) |-> Occurrences(df, row)]

\* what the body of load_data_with_duckdb returns for the unchunked filter
SingleCall ==
    load_data_with_duckdb(last_call.asset, last_call.filters, NoFailure, mult,
                          missing_files).ret

\* the chunk loop of the last call ran through, no chunk failed and no
\* statement of it or of the single call carries a LIMIT
ChunksUnlimited ==
    /\ ChunkLoopCompleted
    /\ last_call.ret.error = None
    /\ SingleCall.error = None
    /\ SingleCall.query.limit = {}
    /\ NumRows(SingleCall.data) <= MAX_QUERY_ROWS(last_call.asset)

\* C29: when no LIMIT is triggered and no chunk fails, process_data_in_chunks
\* returns the same multiset of rows as one load_data_with_duckdb call with
\* the unchunked filter, and its total_rows_available is that number of rows.
C29_ChunkedEqualsSingle ==
    ChunksUnlimited =>
        /\ FrameBag(last_call.ret.data) = FrameBag(SingleCall.data)
        /\ last_call.ret.total_rows_available = NumRows(SingleCall.data)

\* C29 on the calls every chunk of which ran the body of the loader
C29_ChunkedEqualsSingleWhenRun ==
    (ChunkLoopEntered /\ ~last_call.any_from_cache) => C29_ChunkedEqualsSingle

\* a chunked call that ran every chunk and collected rows of several chunks
C29_RowsOfSeveralChunks ==
    /\ ChunksUnlimited
    /\ ~last_call.any_from_cache
    /\ Len(last_call.ranges) = 4
    /\ NumRows(last_call.ret.data) > 9

\* total_chunks of the last call, from its range and chunk_years
TotalChunksOfCall ==
    ((YearOf(last_call.filters.date_range.elems[2].val)
        - YearOf(last_call.filters.date_range.elems[1].val)) \div last_call.chunk_years) + 1

\* C30: the chunk loop ends after at most total_chunks iterations, and after
\* exactly total_chunks when no chunk fails; the i-th fraction handed to the
\* progress bar is i / total_chunks, above 0 and at most 1, and the last one
\* of a loop that ran through is 1.
C30_LoopRunsTotalChunks ==
    ChunkLoopEntered =>
        LET total == TotalChunksOfCall
            shown == last_call.progress
        IN /\ last_call.chunk_years >= 1
           /\ last_call.chunk_count = Len(last_call.ranges)
           /\ last_call.chunk_count <= total
           /\ \A i \in 1..Len(shown) :
                 /\ shown[i] = <<i, total>>
                 /\ 0 < shown[i][1] /\ shown[i][1] <= shown[i][2]
           /\ ChunkLoopCompleted =>
                 /\ last_call.chunk_count = total
                 /\ Len(shown) = total
                 /\ shown[total][1] = shown[total][2]

\* thirty-one one-year chunks from 1990 to 2020, none of which failed
C30_Witness ==
    /\ ChunkLoopCompleted
    /\ last_call.chunk_years = 1
    /\ last_call.chunk_count = 31
    /\ last_call.progress[31] = <<31, 31>>
    /\ last_call.ret.error = None

====
